---- MODULE Spec2Model ----
(***************************************************************************)
(* Healthcare appointment back end: the appointment lifecycle handlers     *)
(* (routes/appointments.js), the doctor profile and availability handlers  *)
(* (routes/doctors.js) and the token lifecycle (routes/auth.js,            *)
(* routes/users.js, middleware/auth.js) over the MySQL schema of the first *)
(* migration.                                                              *)
(*                                                                         *)
(* A handler that holds a transaction is split at the point where its      *)
(* consistent reads end and its one write statement begins: InnoDB's       *)
(* default REPEATABLE READ serves every plain SELECT of a transaction from *)
(* the snapshot of its first read, and the write statement works on the    *)
(* committed rows and is followed at once by COMMIT.  A handler without a  *)
(* transaction is split at each awaited statement that another request can *)
(* observe.  Each client has one request in flight at a time and keeps the *)
(* last response.                                                          *)
(***************************************************************************)
EXTENDS Integers, Sequences, FiniteSets, TLC

VARIABLES users, doctors, appointments, reqs, refresh_tokens, issued, now, calls, history,
          doctor_availability, gets, replaced, regs, auto_increment, server

vars == <<users, doctors, appointments, reqs, refresh_tokens, issued, now, calls, history,
          doctor_availability, gets, replaced, regs, auto_increment, server>>

apptVars == <<doctors, appointments, reqs>>

authVars == <<refresh_tokens, issued, now, calls, history>>

availVars == <<doctor_availability, gets, replaced>>

regVars == <<regs, auto_increment>>

(***************************************************************************)
(* Bounds of the model.                                                    *)
(***************************************************************************)
MaxAppts == 2

(***************************************************************************)
(* Accounts.  users.id: 1 is the admin, 2 and 3 are patients, 4 and 5 are  *)
(* the accounts of doctors 1 and 2 (doctors.user_id).                      *)
(***************************************************************************)
UserIds == {1, 2, 3, 4, 5}
DoctorIds == {1, 2}
Fees == {100, 150}

Role(u) == IF u = 1 THEN "admin" ELSE IF u \in {2, 3} THEN "patient" ELSE "doctor"

(* users.email and doctors.license_number of the accounts above. *)
Email(u) == <<"admin@x", "p2@x", "p3@x", "d4@x", "d5@x">>[u]

License(d) == <<"L1", "L2">>[d]

Statuses == {"scheduled", "confirmed", "in-progress", "completed", "cancelled", "no-show"}

(***************************************************************************)
(* A request body of PUT /appointments/:id.  A key that the body does not  *)
(* hold is 0 (numbers) or "" (strings); Object.keys(updates) is Keys.      *)
(***************************************************************************)
NumberKeys == {"appointmentDate", "appointmentTime", "durationMinutes", "consultationFee"}

NoUpdates ==
  [appointmentDate |-> 0, appointmentTime |-> 0, durationMinutes |-> 0,
   consultationFee |-> 0, type |-> "", status |-> "", reasonForVisit |-> "",
   notes |-> ""]

IsSet(updates, k) == IF k \in NumberKeys THEN updates[k] # 0 ELSE updates[k] # ""

Keys(updates) == {k \in DOMAIN updates : IsSet(updates, k)}

(***************************************************************************)
(* A client's request: op and pc say which handler runs and where it is;   *)
(* doctorId .. updates are the inputs; fee is the handler's local          *)
(* doctor.consultation_fee; res is the HTTP status of the response and     *)
(* insertId the id of the inserted row.  raced and free are bookkeeping    *)
(* for the properties, which no handler reads: how many other creates for  *)
(* the same slot ran while this create was running (2: two or more), and   *)
(* whether no live appointment held the slot when this create arrived.     *)
(***************************************************************************)
Idle ==
  [op |-> "none", pc |-> "idle", user |-> 0, doctorId |-> 0, date |-> 0, time |-> 0,
   id |-> 0, updates |-> NoUpdates, fee |-> 0, res |-> 0, insertId |-> 0,
   raced |-> 0, free |-> FALSE]

Clients == {1, 2}

Free(c) == reqs[c].pc \in {"idle", "done"}

Start(c, r) == reqs' = [reqs EXCEPT ![c] = r]

Respond(c, status) == reqs' = [reqs EXCEPT ![c].pc = "done", ![c].res = status]

(***************************************************************************)
(* Dates.  A calendar date 'YYYY-MM-DD' is the number of its day, day 0    *)
(* being a Sunday, and a Date is an instant in minutes since 00:00 UTC of  *)
(* day 0.  server is the server process's clock, an instant, and its       *)
(* timezone offset in minutes east of UTC.                                 *)
(***************************************************************************)
MinutesPerDay == 1440

(* new Date('YYYY-MM-DD'): a date-only string is parsed as UTC midnight. *)
Date(date) == date * MinutesPerDay

(* The calendar date of an instant in the server's timezone. *)
LocalDate(t) == (t + server.offset) \div MinutesPerDay

(* appointmentDate.getDay(): the weekday in the server's timezone. *)
getDay(appointmentDate) == LocalDate(appointmentDate) % 7

(* today = new Date(); today.setHours(0, 0, 0, 0): local midnight. *)
today == LocalDate(server.clock) * MinutesPerDay - server.offset

(***************************************************************************)
(* middleware/auth.js authenticateToken, as the handlers below need it:    *)
(* the bearer of a valid access token of account u passes if and only if   *)
(* the users row is still active.                                          *)
(***************************************************************************)
(* A faulty variant: the lookup without AND is_active = TRUE. *)
ExistingUser(u) == u \in DOMAIN users

ActiveUser(u) == u \in DOMAIN users /\ users[u].is_active

(***************************************************************************)
(* The status IN ('scheduled', 'confirmed') conflict query of create       *)
(* (exceptId = 0) and update (id != exceptId).                             *)
(***************************************************************************)
ConflictStatuses == {"scheduled", "confirmed"}

(* A faulty variant: the conflict query without AND id != ?. *)
ConflictsAnyId(doctorId, date, time, exceptId) ==
  {i \in DOMAIN appointments :
     /\ appointments[i].doctor_id = doctorId
     /\ appointments[i].appointment_date = date
     /\ appointments[i].appointment_time = time
     /\ appointments[i].status \in ConflictStatuses}

Conflicts(doctorId, date, time, exceptId) ==
  {i \in DOMAIN appointments :
     /\ appointments[i].doctor_id = doctorId
     /\ appointments[i].appointment_date = date
     /\ appointments[i].appointment_time = time
     /\ appointments[i].status \in ConflictStatuses
     /\ i # exceptId}

(***************************************************************************)
(* UNIQUE KEY unique_doctor_datetime (doctor_id, appointment_date,         *)
(* appointment_time): TRUE when writing this key into row exceptId (0: a   *)
(* new row) raises ER_DUP_ENTRY.  The key spans rows of every status.      *)
(***************************************************************************)
(* A faulty variant: the table without the unique key. *)
NoUniqueKey(doctorId, date, time, exceptId) == FALSE

DupEntry(doctorId, date, time, exceptId) ==
  \E i \in DOMAIN appointments :
     /\ i # exceptId
     /\ appointments[i].doctor_id = doctorId
     /\ appointments[i].appointment_date = date
     /\ appointments[i].appointment_time = time

(***************************************************************************)
(* POST /appointments: authenticateToken, authorizeRoles('patient'), then  *)
(* the handler.  CreateBegin is the request up to beginTransaction.        *)
(***************************************************************************)
CreatesInFlight == {c \in Clients : reqs[c].op = "create" /\ ~Free(c)}

(* The statuses the properties call non-terminal, for the bookkeeping. *)
NonTerminal == {"scheduled", "confirmed", "in-progress"}

SlotFree(doctorId, date, time) ==
  \A i \in DOMAIN appointments :
     ~ /\ appointments[i].doctor_id = doctorId
       /\ appointments[i].appointment_date = date
       /\ appointments[i].appointment_time = time
       /\ appointments[i].status \in NonTerminal

CreateBegin(c, callers, docs, dates, times) ==
  /\ Free(c)
  /\ Len(appointments) < MaxAppts
  /\ \E u \in callers, d \in docs, date \in dates, time \in times :
       /\ ActiveUser(u)
       /\ LET r == [Idle EXCEPT !.op = "create", !.user = u, !.doctorId = d,
                                !.date = date, !.time = time,
                                !.free = SlotFree(d, date, time)]
              racing == {e \in CreatesInFlight \ {c} :
                           /\ reqs[e].doctorId = d
                           /\ reqs[e].date = date
                           /\ reqs[e].time = time}
          IN IF users[u].role # "patient"
             THEN Start(c, [r EXCEPT !.pc = "done", !.res = 403])
             ELSE IF Date(date) < today
             THEN Start(c, [r EXCEPT !.pc = "done", !.res = 400])
             ELSE reqs' = [e \in Clients |->
                             IF e = c
                             THEN [r EXCEPT !.pc = "read",
                                            !.raced = IF racing = {} THEN 0 ELSE 1]
                             ELSE IF e \in racing
                             THEN [reqs[e] EXCEPT !.raced = IF @ = 0 THEN 1 ELSE 2]
                             ELSE reqs[e]]
  /\ UNCHANGED <<users, doctors, appointments, authVars, availVars, regVars, server>>

(***************************************************************************)
(* The doctor lookup (d.is_available = TRUE AND u.is_active = TRUE) and    *)
(* the conflict query.  A throw rolls back and answers with the error.     *)
(***************************************************************************)
(* A faulty variant: the lookup without d.is_available and u.is_active. *)
DoctorExists(doctorId) == doctorId \in DOMAIN doctors

DoctorBookable(doctorId) ==
  /\ doctorId \in DOMAIN doctors
  /\ doctors[doctorId].is_available
  /\ ActiveUser(doctors[doctorId].user_id)

CreateRead(c) ==
  /\ reqs[c].op = "create" /\ reqs[c].pc = "read"
  /\ IF ~DoctorBookable(reqs[c].doctorId)
     THEN Respond(c, 404)
     ELSE IF Conflicts(reqs[c].doctorId, reqs[c].date, reqs[c].time, 0) # {}
     THEN Respond(c, 409)
     ELSE reqs' = [reqs EXCEPT ![c].pc = "write",
                               ![c].fee = doctors[reqs[c].doctorId].consultation_fee]
  /\ UNCHANGED <<users, doctors, appointments, authVars, availVars, regVars, server>>

(***************************************************************************)
(* The INSERT and the commit.  ER_DUP_ENTRY is answered 409 by the error   *)
(* handler.  durationMinutes defaults to 30.                               *)
(***************************************************************************)
NewAppointment(r) ==
  [patient_id |-> r.user, doctor_id |-> r.doctorId, appointment_date |-> r.date,
   appointment_time |-> r.time, duration_minutes |-> 30, type |-> "in-person",
   status |-> "scheduled", reason_for_visit |-> "checkup", notes |-> "",
   consultation_fee |-> r.fee, payment_status |-> "pending"]

CreateWrite(c) ==
  /\ reqs[c].op = "create" /\ reqs[c].pc = "write"
  /\ IF DupEntry(reqs[c].doctorId, reqs[c].date, reqs[c].time, 0)
     THEN /\ Respond(c, 409)
          /\ UNCHANGED appointments
     ELSE /\ appointments' = Append(appointments, NewAppointment(reqs[c]))
          /\ reqs' = [reqs EXCEPT ![c].pc = "done", ![c].res = 201,
                                  ![c].insertId = Len(appointments) + 1]
  /\ UNCHANGED <<users, doctors, authVars, availVars, regVars, server>>

(***************************************************************************)
(* PUT /appointments/:id.  UpdateBegin is the request up to                *)
(* beginTransaction; UpdateRead is the SELECT of the row, the permission   *)
(* checks and the conflict query; UpdateWrite the UPDATE and the commit.   *)
(***************************************************************************)
UpdateBegin(c, callers, bodies) ==
  /\ Free(c)
  /\ \E u \in callers, id \in 1..MaxAppts, updates \in bodies :
       /\ ActiveUser(u)
       /\ Start(c, [Idle EXCEPT !.op = "update", !.pc = "read", !.user = u,
                                !.id = id, !.updates = updates])
  /\ UNCHANGED <<users, doctors, appointments, authVars, availVars, regVars, server>>

(* A faulty variant: the permission check without the ownership comparisons. *)
canUpdateByRole(u, appointment) == users[u].role \in {"admin", "patient", "doctor"}

canUpdate(u, appointment) ==
  \/ users[u].role = "admin"
  \/ users[u].role = "patient" /\ appointment.patient_id = u
  \/ users[u].role = "doctor" /\ doctors[appointment.doctor_id].user_id = u

(* A faulty variant: status among the fields a patient may send. *)
allowedFieldsAndStatus == {"appointmentDate", "appointmentTime", "reasonForVisit", "status"}

allowedFields == {"appointmentDate", "appointmentTime", "reasonForVisit"}

hasDisallowedFields(updates) == \E key \in Keys(updates) : key \notin allowedFields

(* updates.appointmentDate || appointment.appointment_date, and the time. *)
newDate(updates, appointment) ==
  IF IsSet(updates, "appointmentDate") THEN updates.appointmentDate
  ELSE appointment.appointment_date

newTime(updates, appointment) ==
  IF IsSet(updates, "appointmentTime") THEN updates.appointmentTime
  ELSE appointment.appointment_time

UpdateRead(c) ==
  /\ reqs[c].op = "update" /\ reqs[c].pc = "read"
  /\ LET r == reqs[c]
         id == r.id
     IN IF id \notin DOMAIN appointments
        THEN Respond(c, 404)
        ELSE LET appointment == appointments[id]
             IN IF ~canUpdate(r.user, appointment)
                THEN Respond(c, 403)
                ELSE IF /\ users[r.user].role = "patient"
                        /\ \/ appointment.status # "scheduled"
                           \/ hasDisallowedFields(r.updates)
                THEN Respond(c, 403)
                ELSE IF /\ \/ IsSet(r.updates, "appointmentDate")
                           \/ IsSet(r.updates, "appointmentTime")
                        /\ Conflicts(appointment.doctor_id, newDate(r.updates, appointment),
                                     newTime(r.updates, appointment), id) # {}
                THEN Respond(c, 409)
                ELSE reqs' = [reqs EXCEPT ![c].pc = "write"]
  /\ UNCHANGED <<users, doctors, appointments, authVars, availVars, regVars, server>>

(***************************************************************************)
(* fieldMapping: the body keys the UPDATE statement writes.                *)
(***************************************************************************)
(* A faulty variant: consultationFee among the columns an update writes. *)
fieldMappingAndFee ==
  {"appointmentDate", "appointmentTime", "durationMinutes", "type", "status",
   "reasonForVisit", "notes", "consultationFee"}

fieldMapping ==
  {"appointmentDate", "appointmentTime", "durationMinutes", "type", "status",
   "reasonForVisit", "notes"}

updateFields(updates) == Keys(updates) \cap fieldMapping

Written(updates, key, old) == IF key \in updateFields(updates) THEN updates[key] ELSE old

Updated(row, updates) ==
  [row EXCEPT
     !.appointment_date = Written(updates, "appointmentDate", @),
     !.appointment_time = Written(updates, "appointmentTime", @),
     !.duration_minutes = Written(updates, "durationMinutes", @),
     !.type = Written(updates, "type", @),
     !.status = Written(updates, "status", @),
     !.reason_for_visit = Written(updates, "reasonForVisit", @),
     !.notes = Written(updates, "notes", @),
     !.consultation_fee = Written(updates, "consultationFee", @)]

(***************************************************************************)
(* With no field to write the handler throws ValidationError, a name the   *)
(* appointments router never imports: the ReferenceError is caught, the    *)
(* transaction rolled back and the error handler answers 500.              *)
(***************************************************************************)
UpdateWrite(c) ==
  /\ reqs[c].op = "update" /\ reqs[c].pc = "write"
  /\ LET r == reqs[c]
         row == Updated(appointments[r.id], r.updates)
     IN IF updateFields(r.updates) = {}
        THEN /\ Respond(c, 500)
             /\ UNCHANGED appointments
        ELSE IF DupEntry(row.doctor_id, row.appointment_date, row.appointment_time, r.id)
        THEN /\ Respond(c, 409)
             /\ UNCHANGED appointments
        ELSE /\ appointments' = [appointments EXCEPT ![r.id] = row]
             /\ Respond(c, 200)
  /\ UNCHANGED <<users, doctors, authVars, availVars, regVars, server>>

(***************************************************************************)
(* DELETE /appointments/:id: the SELECT of the row, the permission check   *)
(* and the UPDATE to 'cancelled', on the pool without a transaction.  The  *)
(* check reads only patient_id and doctor_id, which no statement changes,  *)
(* so the two statements are taken in one step.                            *)
(***************************************************************************)
canCancel(u, appointment) ==
  \/ users[u].role = "admin"
  \/ users[u].role = "patient" /\ appointment.patient_id = u
  \/ users[u].role = "doctor" /\ doctors[appointment.doctor_id].user_id = u

(* A faulty variant: a cancel that refuses an appointment that is already *)
(* cancelled.                                                              *)
CancelOnce(c, callers) ==
  /\ Free(c)
  /\ \E u \in callers, id \in 1..MaxAppts :
       /\ ActiveUser(u)
       /\ LET r == [Idle EXCEPT !.op = "cancel", !.pc = "done", !.user = u, !.id = id]
          IN IF id \notin DOMAIN appointments
             THEN /\ Start(c, [r EXCEPT !.res = 404])
                  /\ UNCHANGED appointments
             ELSE IF ~canCancel(u, appointments[id])
             THEN /\ Start(c, [r EXCEPT !.res = 403])
                  /\ UNCHANGED appointments
             ELSE IF appointments[id].status = "cancelled"
             THEN /\ Start(c, [r EXCEPT !.res = 400])
                  /\ UNCHANGED appointments
             ELSE /\ Start(c, [r EXCEPT !.res = 200])
                  /\ appointments' = [appointments EXCEPT ![id].status = "cancelled"]
  /\ UNCHANGED <<users, doctors, authVars, availVars, regVars, server>>

Cancel(c, callers) ==
  /\ Free(c)
  /\ \E u \in callers, id \in 1..MaxAppts :
       /\ ActiveUser(u)
       /\ LET r == [Idle EXCEPT !.op = "cancel", !.pc = "done", !.user = u, !.id = id]
          IN IF id \notin DOMAIN appointments
             THEN /\ Start(c, [r EXCEPT !.res = 404])
                  /\ UNCHANGED appointments
             ELSE IF ~canCancel(u, appointments[id])
             THEN /\ Start(c, [r EXCEPT !.res = 403])
                  /\ UNCHANGED appointments
             ELSE /\ Start(c, [r EXCEPT !.res = 200])
                  /\ appointments' = [appointments EXCEPT ![id].status = "cancelled"]
  /\ UNCHANGED <<users, doctors, authVars, availVars, regVars, server>>

(***************************************************************************)
(* PUT /doctors/profile with consultationFee, by the doctor's own account. *)
(***************************************************************************)
UpdateDoctorProfile(docs) ==
  /\ \E d \in docs, consultationFee \in Fees :
       /\ ActiveUser(doctors[d].user_id)
       /\ doctors[d].consultation_fee # consultationFee
       /\ doctors' = [doctors EXCEPT ![d].consultation_fee = consultationFee]
  /\ UNCHANGED <<users, appointments, reqs, authVars, availVars, regVars, server>>

(***************************************************************************)
(* PUT /doctors/profile with isAvailable, by the doctor's own account.     *)
(***************************************************************************)
UpdateDoctorAvailable(docs) ==
  /\ \E d \in docs, isAvailable \in BOOLEAN :
       /\ ActiveUser(doctors[d].user_id)
       /\ doctors[d].is_available # isAvailable
       /\ doctors' = [doctors EXCEPT ![d].is_available = isAvailable]
  /\ UNCHANGED <<users, appointments, reqs, authVars, availVars, regVars, server>>

(***************************************************************************)
(* The doctors router's availability.  doctor_availability holds the       *)
(* committed rows in the order of their ids; a TIME of day is its minutes  *)
(* since 00:00, a date the number of its day, day 0 being a Sunday.        *)
(* gets[c] is client c's request to GET /doctors/:id,                      *)
(* GET /doctors/:id/availability/:date or PUT /doctors/availability: body  *)
(* is req.body.availability, tx the rows of the doctor as the open         *)
(* transaction of the PUT sees them, k the index of the next slot of the   *)
(* body, availability the rows the SELECT returned, availableSlots the     *)
(* slots of the response.  during and replaced are bookkeeping for the     *)
(* properties, which no handler reads: whether the SELECT of the windows   *)
(* ran while a PUT of the same doctor had written in its open transaction, *)
(* and for each doctor the complete lists of rows that the migration or a  *)
(* committed PUT stored.                                                   *)
(***************************************************************************)
dayNames ==
  <<"sunday", "monday", "tuesday", "wednesday", "thursday", "friday", "saturday">>

DayOfWeekEnum ==
  {"monday", "tuesday", "wednesday", "thursday", "friday", "saturday", "sunday"}

(* String.prototype.toLowerCase on the day names of the requests. *)
toLowerCase(s) ==
  CASE s = "Monday" -> "monday"
    [] s = "Tuesday" -> "tuesday"
    [] OTHER -> s

(* currentTime.toTimeString().slice(0, 5): the hours and the minutes. *)
toTimeString(t) == <<(t \div 60) % 24, t % 60>>

NoGet ==
  [op |-> "none", pc |-> "idle", user |-> 0, doctorId |-> 0, date |-> 0,
   body |-> << >>, tx |-> << >>, k |-> 0, availability |-> << >>,
   availableSlots |-> << >>, res |-> 0, during |-> FALSE]

GetFree(c) == gets[c].pc \in {"idle", "done"}

(* The clients whose PUT /doctors/availability has written in its open    *)
(* transaction.                                                            *)
Writers == {c \in Clients : gets[c].op = "setWindows" /\ gets[c].pc \in {"insert", "commit"}}

Writing(doctorId) == \E w \in Writers : gets[w].doctorId = doctorId

(* A faulty variant: a SELECT that reads the uncommitted rows of an open  *)
(* transaction (READ UNCOMMITTED).                                         *)
ReadUncommitted ==
  IF Writers = {} THEN doctor_availability
  ELSE LET w == CHOOSE c \in Writers : TRUE
           Other(row) == row.doctor_id # gets[w].doctorId
       IN SelectSeq(doctor_availability, Other) \o gets[w].tx

(* What a SELECT on another connection sees of doctor_availability: the   *)
(* committed rows.                                                         *)
ReadCommitted == doctor_availability

(***************************************************************************)
(* GET /doctors/:id/availability/:date.  GetAvailability is the request up *)
(* to the SELECT of the windows of the weekday; GetAvailabilitySlots the   *)
(* SELECT of the booked appointments and the slot loop over the first      *)
(* window, availability[0].                                                *)
(***************************************************************************)
Windows(doctorId, dayOfWeek) ==
  LET Match(row) ==
        /\ row.doctor_id = doctorId
        /\ row.day_of_week = dayOfWeek
        /\ row.is_active
  IN IF /\ doctorId \in DOMAIN doctors
        /\ doctors[doctorId].is_available
        /\ ActiveUser(doctors[doctorId].user_id)
     THEN SelectSeq(ReadCommitted, Match)
     ELSE << >>

GetAvailability(c, docs, dates) ==
  /\ GetFree(c)
  /\ \E doctorId \in docs, date \in dates :
       LET r == [NoGet EXCEPT !.op = "availability", !.doctorId = doctorId,
                              !.date = date]
           dayOfWeek == dayNames[getDay(Date(date)) + 1]
           availability == Windows(doctorId, dayOfWeek)
       IN IF Date(date) < today
          THEN gets' = [gets EXCEPT ![c] = [r EXCEPT !.pc = "done", !.res = 400]]
          ELSE IF Len(availability) = 0
          THEN gets' = [gets EXCEPT ![c] = [r EXCEPT !.pc = "done", !.res = 200]]
          ELSE gets' = [gets EXCEPT ![c] = [r EXCEPT !.pc = "booked",
                                                      !.availability = availability,
                                                      !.during = Writing(doctorId)]]
  /\ UNCHANGED <<users, apptVars, authVars, doctor_availability, replaced, regVars, server>>

BookedStatuses == {"scheduled", "confirmed", "in-progress"}

bookedSlots(doctorId, date) ==
  LET Booked(row) ==
        /\ row.doctor_id = doctorId
        /\ row.appointment_date = date
        /\ row.status \in BookedStatuses
  IN SelectSeq(appointments, Booked)

(* A faulty variant: the comparisons of the second disjunct closed at the *)
(* start of the booked appointment.                                        *)
isBookedClosed(currentTime, booked) ==
  \E i \in DOMAIN booked :
     LET slotStart == booked[i].appointment_time
         slotEnd == slotStart + booked[i].duration_minutes
         currentSlotEnd == currentTime + 30
     IN \/ currentTime >= slotStart /\ currentTime < slotEnd
        \/ currentSlotEnd >= slotStart /\ currentSlotEnd <= slotEnd

isBooked(currentTime, booked) ==
  \E i \in DOMAIN booked :
     LET slotStart == booked[i].appointment_time
         slotEnd == slotStart + booked[i].duration_minutes
         currentSlotEnd == currentTime + 30
     IN \/ currentTime >= slotStart /\ currentTime < slotEnd
        \/ currentSlotEnd > slotStart /\ currentSlotEnd <= slotEnd

(* A faulty variant: the loop with currentTime <= endTime. *)
RECURSIVE slotsInclusive(_, _, _)
slotsInclusive(currentTime, endTime, booked) ==
  IF ~(currentTime <= endTime) THEN << >>
  ELSE (IF isBooked(currentTime, booked) THEN << >>
        ELSE <<[time |-> toTimeString(currentTime), available |-> TRUE]>>)
       \o slotsInclusive(currentTime + 30, endTime, booked)

RECURSIVE slots(_, _, _)
slots(currentTime, endTime, booked) ==
  IF ~(currentTime < endTime) THEN << >>
  ELSE (IF isBooked(currentTime, booked) THEN << >>
        ELSE <<[time |-> toTimeString(currentTime), available |-> TRUE]>>)
       \o slots(currentTime + 30, endTime, booked)

GetAvailabilitySlots(c) ==
  /\ gets[c].op = "availability" /\ gets[c].pc = "booked"
  /\ LET start_time == gets[c].availability[1].start_time
         end_time == gets[c].availability[1].end_time
         booked == bookedSlots(gets[c].doctorId, gets[c].date)
     IN gets' = [gets EXCEPT ![c].pc = "done", ![c].res = 200,
                             ![c].availableSlots = slots(start_time, end_time, booked)]
  /\ UNCHANGED <<users, apptVars, authVars, doctor_availability, replaced, regVars, server>>

(***************************************************************************)
(* GET /doctors/:id: the SELECT of the doctor of an active account, then   *)
(* the SELECT of the doctor's active windows, ordered by the day.          *)
(***************************************************************************)
GetDoctor(c, docs) ==
  /\ GetFree(c)
  /\ \E doctorId \in docs :
       LET r == [NoGet EXCEPT !.op = "doctor", !.doctorId = doctorId]
       IN IF doctorId \in DOMAIN doctors /\ ActiveUser(doctors[doctorId].user_id)
          THEN gets' = [gets EXCEPT ![c] = [r EXCEPT !.pc = "availability"]]
          ELSE gets' = [gets EXCEPT ![c] = [r EXCEPT !.pc = "done", !.res = 404]]
  /\ UNCHANGED <<users, apptVars, authVars, doctor_availability, replaced, regVars, server>>

FieldOrder ==
  <<"monday", "tuesday", "wednesday", "thursday", "friday", "saturday", "sunday">>

RECURSIVE OrderByField(_, _)
OrderByField(rows, n) ==
  IF n > Len(FieldOrder) THEN << >>
  ELSE LET OnDay(row) == row.day_of_week = FieldOrder[n]
       IN SelectSeq(rows, OnDay) \o OrderByField(rows, n + 1)

GetDoctorAvailability(c) ==
  /\ gets[c].op = "doctor" /\ gets[c].pc = "availability"
  /\ LET Active(row) == row.doctor_id = gets[c].doctorId /\ row.is_active
     IN gets' = [gets EXCEPT ![c].pc = "done", ![c].res = 200,
                             ![c].availability =
                                OrderByField(SelectSeq(ReadCommitted, Active), 1),
                             ![c].during = Writing(gets[c].doctorId)]
  /\ UNCHANGED <<users, apptVars, authVars, doctor_availability, replaced, regVars, server>>

(***************************************************************************)
(* PUT /doctors/availability behind authenticateToken and                  *)
(* authorizeRoles('doctor').  SetWindowsBegin is the request up to         *)
(* beginTransaction; SetWindowsDelete the DELETE of the doctor's rows,     *)
(* which waits for the row locks of another open transaction on them;      *)
(* SetWindowsInsert one turn of the loop; SetWindowsCommit the commit.     *)
(* The DELETE and the INSERTs work on tx and reach doctor_availability at  *)
(* the commit; the rollback of the catch block drops tx.                   *)
(***************************************************************************)
SetWindowsBegin(c, callers, bodies) ==
  /\ GetFree(c)
  /\ \E u \in callers, availability \in bodies :
       /\ ActiveUser(u)
       /\ LET r == [NoGet EXCEPT !.op = "setWindows", !.user = u, !.body = availability]
              mine == {d \in DOMAIN doctors : doctors[d].user_id = u}
          IN IF users[u].role # "doctor"
             THEN gets' = [gets EXCEPT ![c] = [r EXCEPT !.pc = "done", !.res = 403]]
             ELSE IF mine = {}
             THEN gets' = [gets EXCEPT ![c] = [r EXCEPT !.pc = "done", !.res = 404]]
             ELSE gets' = [gets EXCEPT ![c] =
                             [r EXCEPT !.pc = "delete",
                                       !.doctorId = CHOOSE d \in mine : TRUE]]
  /\ UNCHANGED <<users, apptVars, authVars, doctor_availability, replaced, regVars, server>>

SetWindowsDelete(c) ==
  /\ gets[c].op = "setWindows" /\ gets[c].pc = "delete"
  /\ \A w \in Writers : gets[w].doctorId # gets[c].doctorId
  /\ gets' = [gets EXCEPT ![c].pc = "insert", ![c].tx = << >>, ![c].k = 1]
  /\ UNCHANGED <<users, apptVars, authVars, doctor_availability, replaced, regVars, server>>

Has(slot, key) == key \in DOMAIN slot

(* The row that the INSERT of a slot stores; isActive defaults to true. *)
Row(doctorId, slot) ==
  [doctor_id |-> doctorId, day_of_week |-> toLowerCase(slot.dayOfWeek),
   start_time |-> slot.startTime, end_time |-> slot.endTime,
   is_active |-> IF Has(slot, "isActive") THEN slot.isActive ELSE TRUE]

(***************************************************************************)
(* A slot that lacks dayOfWeek, startTime or endTime makes the handler     *)
(* throw ValidationError, a name the doctors router never imports: the     *)
(* ReferenceError is caught like every error, the transaction rolled back  *)
(* and the error handler answers 500.  A day outside the ENUM makes the    *)
(* INSERT fail, with the same rollback and answer.                         *)
(***************************************************************************)
SetWindowsInsert(c) ==
  /\ gets[c].op = "setWindows" /\ gets[c].pc = "insert"
  /\ LET r == gets[c]
     IN IF r.k > Len(r.body)
        THEN gets' = [gets EXCEPT ![c].pc = "commit"]
        ELSE LET slot == r.body[r.k]
             IN IF ~(Has(slot, "dayOfWeek") /\ Has(slot, "startTime") /\ Has(slot, "endTime"))
                THEN gets' = [gets EXCEPT ![c].pc = "done", ![c].res = 500,
                                          ![c].tx = << >>]
                ELSE IF toLowerCase(slot.dayOfWeek) \notin DayOfWeekEnum
                THEN gets' = [gets EXCEPT ![c].pc = "done", ![c].res = 500,
                                          ![c].tx = << >>]
                ELSE gets' = [gets EXCEPT ![c].tx = Append(@, Row(r.doctorId, slot)),
                                          ![c].k = @ + 1]
  /\ UNCHANGED <<users, apptVars, authVars, doctor_availability, replaced, regVars, server>>

SetWindowsCommit(c) ==
  /\ gets[c].op = "setWindows" /\ gets[c].pc = "commit"
  /\ LET r == gets[c]
         Other(row) == row.doctor_id # r.doctorId
     IN /\ doctor_availability' = SelectSeq(doctor_availability, Other) \o r.tx
        /\ replaced' = [replaced EXCEPT
                          ![r.doctorId] = @ \cup {[i \in DOMAIN r.body |->
                                                     Row(r.doctorId, r.body[i])]}]
  /\ gets' = [gets EXCEPT ![c].pc = "done", ![c].res = 200, ![c].tx = << >>]
  /\ UNCHANGED <<users, apptVars, authVars, regVars, server>>

(***************************************************************************)
(* Tokens.  generateTokens signs { userId } with jsonwebtoken, which adds  *)
(* iat, the time in whole seconds, and exp = iat + expiresIn; HS256 is     *)
(* deterministic, so the token is a function of userId and iat.  The       *)
(* access and the refresh token of one call carry the same userId and iat  *)
(* and are one record here: it verifies as an access token until           *)
(* iat + AccessTtl and as a refresh token until iat + RefreshTtl.          *)
(***************************************************************************)
AccessTtl == 86400
RefreshTtl == 604800
MaxSecond == 1
MaxWindow == 1
MaxTokens == 3

Passwords == {"pw1", "pw2"}

NoToken == [userId |-> 0, iat |-> 0]

generateTokens(userId) == [userId |-> userId, iat |-> now]

(***************************************************************************)
(* bcrypt.hash(refreshToken, 10) and bcrypt.compare.  bcrypt keys its      *)
(* cipher with the first 72 bytes of the input.  Those are the 36          *)
(* characters of the HS256 header, the dot, and 35 characters of the       *)
(* base64url payload {"userId":u,"iat":dddddddddd,...}: 26 bytes and two   *)
(* bits, which for a one-digit userId end after the eighth of the ten      *)
(* digits of iat (the two bits are the same for every digit).  The hash    *)
(* holds the userId and the hundred-second window of iat.                  *)
(***************************************************************************)
BcryptWindow == 100

Hash(token) == [userId |-> token.userId, iat |-> token.iat \div BcryptWindow]

compare(token, token_hash) == Hash(token) = token_hash

(***************************************************************************)
(* A client's call of the token lifecycle.  token is the presented token,  *)
(* validToken the id of the refresh_tokens row the refresh matched,        *)
(* newToken the generated pair, password the new password of a password    *)
(* change.  reuse and stale are bookkeeping for the properties: whether    *)
(* the presented token had been redeemed, or was issued before a completed *)
(* password change, when the call arrived.                                 *)
(***************************************************************************)
NoCall ==
  [op |-> "none", pc |-> "idle", user |-> 0, token |-> NoToken, validToken |-> 0,
   newToken |-> NoToken, password |-> "", res |-> 0, reuse |-> FALSE, stale |-> FALSE]

CallFree(c) == calls[c].pc \in {"idle", "done"}

Call(c, r) == calls' = [calls EXCEPT ![c] = r]

Answer(c, status) == calls' = [calls EXCEPT ![c].pc = "done", ![c].res = status]

(* INSERT INTO refresh_tokens (user_id, token_hash, expires_at).  token is *)
(* bookkeeping for the properties, which no handler reads: the token the   *)
(* row was created for.                                                    *)
NewRefreshToken(userId, token) ==
  [user_id |-> userId, token_hash |-> Hash(token), expires_at |-> now + RefreshTtl,
   is_revoked |-> FALSE, token |-> token]

(* UPDATE refresh_tokens SET is_revoked = TRUE WHERE user_id = ? *)
RevokeAll(userId) ==
  [i \in DOMAIN refresh_tokens |->
     IF refresh_tokens[i].user_id = userId
     THEN [refresh_tokens[i] EXCEPT !.is_revoked = TRUE]
     ELSE refresh_tokens[i]]

(* history is bookkeeping for the properties, which no handler reads: the *)
(* tokens a refresh has redeemed, the tokens issued before a completed     *)
(* password change of their account, and the accounts whose password       *)
(* change completed with no login since.  When a token is handed to a      *)
(* client the string is a current token again, whatever happened to an     *)
(* equal one before.                                                       *)
Handed(token) ==
  [history EXCEPT !.redeemed = @ \ {token}, !.stale = @ \ {token}]

(***************************************************************************)
(* POST /auth/login: the SELECT of the account, the is_active and password *)
(* checks and generateTokens; then the INSERT of the hash and the          *)
(* response.  password_hash is compared as the password it was made from.  *)
(***************************************************************************)
LoginSelect(c, accounts, passwords) ==
  /\ CallFree(c)
  /\ Len(refresh_tokens) < MaxTokens
  /\ \E u \in accounts, password \in passwords :
       LET r == [NoCall EXCEPT !.op = "login", !.user = u]
       IN IF ~users[u].is_active
          THEN Call(c, [r EXCEPT !.pc = "done", !.res = 401])
          ELSE IF password # users[u].password_hash
          THEN Call(c, [r EXCEPT !.pc = "done", !.res = 401])
          ELSE Call(c, [r EXCEPT !.pc = "insert", !.newToken = generateTokens(u)])
  /\ UNCHANGED <<users, apptVars, availVars, refresh_tokens, issued, now, history, regVars, server>>

LoginInsert(c) ==
  /\ calls[c].op = "login" /\ calls[c].pc = "insert"
  /\ refresh_tokens' =
       Append(refresh_tokens, NewRefreshToken(calls[c].user, calls[c].newToken))
  /\ issued' = issued \cup {calls[c].newToken}
  /\ history' = [Handed(calls[c].newToken) EXCEPT !.changed = @ \ {calls[c].user}]
  /\ Answer(c, 200)
  /\ UNCHANGED <<users, apptVars, availVars, now, regVars, server>>

(***************************************************************************)
(* POST /auth/refresh, three statements on the pool with no transaction.   *)
(* RefreshSelect: jwt.verify, the SELECT of the account's rows that are    *)
(* neither revoked nor expired, and the bcrypt.compare loop, which keeps   *)
(* the first row that matches (the SELECT has no ORDER BY: any of them).   *)
(***************************************************************************)
ValidTokens(token) ==
  {i \in DOMAIN refresh_tokens :
     /\ refresh_tokens[i].user_id = token.userId
     /\ refresh_tokens[i].expires_at > now
     /\ ~refresh_tokens[i].is_revoked
     /\ compare(token, refresh_tokens[i].token_hash)}

RefreshSelect(c) ==
  /\ CallFree(c)
  /\ Len(refresh_tokens) < MaxTokens
  /\ \E refreshToken \in issued :
       LET r == [NoCall EXCEPT !.op = "refresh", !.user = refreshToken.userId,
                               !.token = refreshToken,
                               !.reuse = refreshToken \in history.redeemed,
                               !.stale = refreshToken \in history.stale]
       IN IF now >= refreshToken.iat + RefreshTtl \/ ValidTokens(refreshToken) = {}
          THEN Call(c, [r EXCEPT !.pc = "done", !.res = 401])
          ELSE \E validToken \in ValidTokens(refreshToken) :
                 Call(c, [r EXCEPT !.pc = "revoke", !.validToken = validToken])
  /\ UNCHANGED <<users, apptVars, availVars, refresh_tokens, issued, now, history, regVars, server>>

(* generateTokens and UPDATE refresh_tokens SET is_revoked = TRUE WHERE id = ? *)
RefreshRevoke(c) ==
  /\ calls[c].op = "refresh" /\ calls[c].pc = "revoke"
  /\ calls' = [calls EXCEPT ![c].pc = "insert",
                            ![c].newToken = generateTokens(calls[c].user)]
  /\ refresh_tokens' = [refresh_tokens EXCEPT ![calls[c].validToken].is_revoked = TRUE]
  /\ UNCHANGED <<users, apptVars, availVars, issued, now, history, regVars, server>>

(* The INSERT of the new hash and the response with the new pair. *)
RefreshInsert(c) ==
  /\ calls[c].op = "refresh" /\ calls[c].pc = "insert"
  /\ refresh_tokens' =
       Append(refresh_tokens, NewRefreshToken(calls[c].user, calls[c].newToken))
  /\ issued' = issued \cup {calls[c].newToken}
  /\ history' = [[history EXCEPT !.redeemed = @ \cup {calls[c].token}]
                   EXCEPT !.redeemed = @ \ {calls[c].newToken},
                          !.stale = @ \ {calls[c].newToken}]
  /\ Answer(c, 200)
  /\ UNCHANGED <<users, apptVars, availVars, now, regVars, server>>

(***************************************************************************)
(* POST /auth/logout behind authenticateToken, called with an access token *)
(* of account u and, in the body, a refresh token or none.  With a token:  *)
(* the SELECT of the caller's non-revoked rows and the bcrypt.compare      *)
(* loop, which stops at the first row that matches (the SELECT has no      *)
(* ORDER BY: any of them), then the UPDATE of that row.  Without: the      *)
(* UPDATE of every row of the caller.  The answer is 200 in each case.     *)
(***************************************************************************)
LogoutTokens(u, refreshToken) ==
  {i \in DOMAIN refresh_tokens :
     /\ refresh_tokens[i].user_id = u
     /\ ~refresh_tokens[i].is_revoked
     /\ compare(refreshToken, refresh_tokens[i].token_hash)}

Logout(c, callers) ==
  /\ CallFree(c)
  /\ \E u \in callers, refreshToken \in issued \cup {NoToken} :
       /\ \E access \in issued : access.userId = u /\ now < access.iat + AccessTtl
       /\ LET r == [NoCall EXCEPT !.op = "logout", !.user = u, !.token = refreshToken]
          IN IF ~ActiveUser(u)
             THEN /\ Call(c, [r EXCEPT !.pc = "done", !.res = 401])
                  /\ UNCHANGED refresh_tokens
             ELSE IF refreshToken = NoToken
             THEN /\ refresh_tokens' = RevokeAll(u)
                  /\ Call(c, [r EXCEPT !.pc = "done", !.res = 200])
             ELSE IF LogoutTokens(u, refreshToken) = {}
             THEN /\ Call(c, [r EXCEPT !.pc = "done", !.res = 200])
                  /\ UNCHANGED refresh_tokens
             ELSE /\ \E token \in LogoutTokens(u, refreshToken) :
                       Call(c, [r EXCEPT !.pc = "revoke", !.validToken = token])
                  /\ UNCHANGED refresh_tokens
  /\ UNCHANGED <<users, apptVars, availVars, issued, now, history, regVars, server>>

LogoutRevoke(c) ==
  /\ calls[c].op = "logout" /\ calls[c].pc = "revoke"
  /\ refresh_tokens' = [refresh_tokens EXCEPT ![calls[c].validToken].is_revoked = TRUE]
  /\ Answer(c, 200)
  /\ UNCHANGED <<users, apptVars, availVars, issued, now, history, regVars, server>>

(***************************************************************************)
(* PUT /users/password behind authenticateToken: the SELECT of the hash    *)
(* and the comparison; the UPDATE of users; the UPDATE that revokes every  *)
(* refresh token of the account, and the response.                         *)
(***************************************************************************)
PasswordCheck(c, accounts, currentPasswords, newPasswords) ==
  /\ CallFree(c)
  /\ \E u \in accounts, currentPassword \in currentPasswords,
        newPassword \in newPasswords :
       LET r == [NoCall EXCEPT !.op = "password", !.user = u]
       IN IF ~ActiveUser(u)
          THEN Call(c, [r EXCEPT !.pc = "done", !.res = 401])
          ELSE IF currentPassword # users[u].password_hash
          THEN Call(c, [r EXCEPT !.pc = "done", !.res = 400])
          ELSE Call(c, [r EXCEPT !.pc = "update", !.password = newPassword])
  /\ UNCHANGED <<users, apptVars, availVars, refresh_tokens, issued, now, history, regVars, server>>

PasswordUpdate(c) ==
  /\ calls[c].op = "password" /\ calls[c].pc = "update"
  /\ users' = [users EXCEPT ![calls[c].user].password_hash = calls[c].password]
  /\ calls' = [calls EXCEPT ![c].pc = "revoke"]
  /\ UNCHANGED <<apptVars, availVars, refresh_tokens, issued, now, history, regVars, server>>

PasswordRevoke(c) ==
  /\ calls[c].op = "password" /\ calls[c].pc = "revoke"
  /\ refresh_tokens' = RevokeAll(calls[c].user)
  /\ history' = [history EXCEPT
                   !.stale = @ \cup {t \in issued : t.userId = calls[c].user},
                   !.changed = @ \cup {calls[c].user}]
  /\ Answer(c, 200)
  /\ UNCHANGED <<users, apptVars, availVars, issued, now, regVars, server>>

(***************************************************************************)
(* PUT /users/:id/status behind authenticateToken and                      *)
(* authorizeRoles('admin'), called by account 1: the UPDATE of is_active,  *)
(* and after a deactivation the UPDATE that revokes the refresh tokens.    *)
(***************************************************************************)
StatusUpdate(c, targets) ==
  /\ CallFree(c)
  /\ \E userId \in targets, isActive \in BOOLEAN :
       LET r == [NoCall EXCEPT !.op = "status", !.user = userId]
       IN IF ~ActiveUser(1)
          THEN Call(c, [r EXCEPT !.pc = "done", !.res = 401]) /\ UNCHANGED users
          ELSE IF userId = 1 /\ ~isActive
          THEN Call(c, [r EXCEPT !.pc = "done", !.res = 400]) /\ UNCHANGED users
          ELSE /\ users' = [users EXCEPT ![userId].is_active = isActive]
               /\ IF isActive
                  THEN Call(c, [r EXCEPT !.pc = "done", !.res = 200])
                  ELSE Call(c, [r EXCEPT !.pc = "revoke"])
  /\ UNCHANGED <<apptVars, availVars, refresh_tokens, issued, now, history, regVars, server>>

StatusRevoke(c) ==
  /\ calls[c].op = "status" /\ calls[c].pc = "revoke"
  /\ refresh_tokens' = RevokeAll(calls[c].user)
  /\ Answer(c, 200)
  /\ UNCHANGED <<users, apptVars, availVars, issued, now, history, regVars, server>>

(***************************************************************************)
(* middleware/auth.js authenticateToken in front of GET /auth/me:          *)
(* jwt.verify, then the SELECT of the account WHERE is_active = TRUE; 401  *)
(* without calling next() if no row comes back.  GetMe is the handler.     *)
(***************************************************************************)
authenticateToken(c) ==
  /\ CallFree(c)
  /\ \E token \in issued :
       LET r == [NoCall EXCEPT !.op = "me", !.user = token.userId, !.token = token]
       IN IF now >= token.iat + AccessTtl
          THEN Call(c, [r EXCEPT !.pc = "done", !.res = 401])
          ELSE IF ~ActiveUser(token.userId)
          THEN Call(c, [r EXCEPT !.pc = "done", !.res = 401])
          ELSE Call(c, [r EXCEPT !.pc = "handler"])
  /\ UNCHANGED <<users, apptVars, availVars, refresh_tokens, issued, now, history, regVars, server>>

GetMe(c) ==
  /\ calls[c].op = "me" /\ calls[c].pc = "handler"
  /\ Answer(c, 200)
  /\ UNCHANGED <<users, apptVars, availVars, refresh_tokens, issued, now, history, regVars, server>>

(***************************************************************************)
(* The clock: a second passes, or the time moves to the start of the next  *)
(* hundred-second window.                                                  *)
(***************************************************************************)
Tick ==
  /\ \/ /\ now % BcryptWindow < MaxSecond
        /\ now' = now + 1
     \/ /\ now \div BcryptWindow < MaxWindow
        /\ now' = (now \div BcryptWindow + 1) * BcryptWindow
  /\ UNCHANGED <<users, apptVars, availVars, refresh_tokens, issued, calls, history, regVars, server>>

(***************************************************************************)
(* POST /auth/register.  regs[c] is a client's register call: the body,    *)
(* the insertId of the users and of the doctors row while they are written *)
(* in the transaction and not yet committed, seen, the license numbers in  *)
(* the transaction's snapshot (REPEATABLE READ: taken by its first SELECT),*)
(* and the response.  acquired, begun, commits, rollbacks and releases are *)
(* bookkeeping for the properties, which no handler reads: the calls made  *)
(* on the pool connection.  auto_increment holds the next id of users and  *)
(* of doctors; a rollback does not return an id.                           *)
(***************************************************************************)
MaxUserId == 7

NoRegister ==
  [op |-> "none", pc |-> "idle", email |-> "", role |-> "", specialization |-> "",
   licenseNumber |-> "", userId |-> 0, doctorId |-> 0, seen |-> {}, res |-> 0,
   acquired |-> 0, begun |-> 0, commits |-> 0, rollbacks |-> 0, releases |-> 0]

RegisterFree(c) == regs[c].pc \in {"idle", "done"}

(* catch and finally with a connection: rollback, next(error), release. *)
Caught(r, status) ==
  [r EXCEPT !.pc = "done", !.res = status, !.rollbacks = @ + 1, !.releases = @ + 1]

EmailTaken(email) == \E u \in DOMAIN users : users[u].email = email

LicenseTaken(licenseNumber) ==
  \E d \in DOMAIN doctors : doctors[d].license_number = licenseNumber

(* The rows another transaction has inserted and not committed: an INSERT  *)
(* of the same unique key waits for that transaction to end.               *)
HoldsEmail(c, email) == regs[c].pc \in {"doctor", "commit"} /\ regs[c].email = email

HoldsLicense(c, licenseNumber) ==
  /\ regs[c].pc = "commit" /\ regs[c].role = "doctor"
  /\ regs[c].licenseNumber = licenseNumber

(* registerValidation: specialization and licenseNumber notEmpty for a doctor. *)
registerValidation(role, specialization, licenseNumber) ==
  role = "doctor" => specialization # "" /\ licenseNumber # ""

(***************************************************************************)
(* registerValidation, db.getConnection (which can fail: the catch then    *)
(* has no connection), beginTransaction and the SELECT of the email.       *)
(***************************************************************************)
RegisterBegin(c, emails, roles, specializations, licenses) ==
  /\ RegisterFree(c)
  /\ auto_increment.users <= MaxUserId
  /\ \E email \in emails, role \in roles, specialization \in specializations,
        licenseNumber \in licenses, connected \in BOOLEAN :
       LET r == [NoRegister EXCEPT !.op = "register", !.email = email, !.role = role,
                                   !.specialization = specialization,
                                   !.licenseNumber = licenseNumber]
           begun == [r EXCEPT !.acquired = 1, !.begun = 1]
       IN IF ~registerValidation(role, specialization, licenseNumber)
          THEN regs' = [regs EXCEPT ![c] = [r EXCEPT !.pc = "done", !.res = 400]]
          ELSE IF ~connected
          THEN regs' = [regs EXCEPT ![c] = [r EXCEPT !.pc = "done", !.res = 500]]
          ELSE IF EmailTaken(email)
          THEN regs' = [regs EXCEPT ![c] = Caught(begun, 409)]
          ELSE regs' = [regs EXCEPT ![c] =
                          [begun EXCEPT !.pc = "user",
                                        !.seen = {doctors[d].license_number :
                                                    d \in DOMAIN doctors}]]
  /\ UNCHANGED <<users, apptVars, authVars, availVars, auto_increment, server>>

(***************************************************************************)
(* The INSERT of the users row (ER_DUP_ENTRY on users.email is answered    *)
(* 409) and, for a doctor, the handler's own test of specialization and    *)
(* licenseNumber.                                                          *)
(***************************************************************************)
RegisterInsertUser(c) ==
  /\ regs[c].op = "register" /\ regs[c].pc = "user"
  /\ \A o \in Clients \ {c} : ~HoldsEmail(o, regs[c].email)
  /\ LET r == regs[c]
     IN IF EmailTaken(r.email)
        THEN regs' = [regs EXCEPT ![c] = Caught(r, 409)]
        ELSE IF r.role = "doctor" /\ (r.specialization = "" \/ r.licenseNumber = "")
        THEN regs' = [regs EXCEPT ![c] = Caught(r, 400)]
        ELSE regs' = [regs EXCEPT ![c].userId = auto_increment.users,
                                  ![c].pc = IF r.role = "doctor" THEN "doctor"
                                            ELSE "commit"]
  /\ auto_increment' = [auto_increment EXCEPT !.users = @ + 1]
  /\ UNCHANGED <<users, apptVars, authVars, availVars, server>>

(* The SELECT of the license number, read in the snapshot, and the INSERT  *)
(* of the doctors row (ER_DUP_ENTRY on doctors.license_number: 409).       *)
RegisterInsertDoctor(c) ==
  /\ regs[c].op = "register" /\ regs[c].pc = "doctor"
  /\ LET r == regs[c]
     IN IF r.licenseNumber \in r.seen
        THEN /\ regs' = [regs EXCEPT ![c] = Caught(r, 409)]
             /\ UNCHANGED auto_increment
        ELSE /\ \A o \in Clients \ {c} : ~HoldsLicense(o, r.licenseNumber)
             /\ auto_increment' = [auto_increment EXCEPT !.doctors = @ + 1]
             /\ IF LicenseTaken(r.licenseNumber)
                THEN regs' = [regs EXCEPT ![c] = Caught(r, 409)]
                ELSE regs' = [regs EXCEPT ![c].doctorId = auto_increment.doctors,
                                          ![c].pc = "commit"]
  /\ UNCHANGED <<users, apptVars, authVars, availVars, server>>

(* connection.commit(): the rows of the transaction become visible. *)
NewUser(r) ==
  [role |-> r.role, is_active |-> TRUE, password_hash |-> "pw1", email |-> r.email]

NewDoctor(r) ==
  [user_id |-> r.userId, consultation_fee |-> 0, is_available |-> TRUE,
   license_number |-> r.licenseNumber]

RegisterCommit(c) ==
  /\ regs[c].op = "register" /\ regs[c].pc = "commit"
  /\ LET r == regs[c]
     IN /\ users' = [u \in DOMAIN users \cup {r.userId} |->
                       IF u = r.userId THEN NewUser(r) ELSE users[u]]
        /\ doctors' = IF r.role = "doctor"
                      THEN [d \in DOMAIN doctors \cup {r.doctorId} |->
                              IF d = r.doctorId THEN NewDoctor(r) ELSE doctors[d]]
                      ELSE doctors
        /\ regs' = [regs EXCEPT ![c].pc = "token", ![c].commits = @ + 1]
  /\ UNCHANGED <<appointments, reqs, authVars, availVars, auto_increment, server>>

(***************************************************************************)
(* After the commit: generateTokens, bcrypt.hash and the INSERT of the     *)
(* refresh_tokens row on the pool, then the 201.  The INSERT can fail: its *)
(* foreign key finds no users row (ER_NO_REFERENCED_ROW_2: 400) when the   *)
(* account was deleted in between, or the statement fails on the server or *)
(* on the way to it (500).  The catch then calls rollback on the           *)
(* connection whose transaction is already committed.                      *)
(***************************************************************************)
RegisterToken(c) ==
  /\ regs[c].op = "register" /\ regs[c].pc = "token"
  /\ \E stored \in BOOLEAN :
       LET r == regs[c]
           refreshToken == generateTokens(r.userId)
       IN IF r.userId \notin DOMAIN users
          THEN /\ regs' = [regs EXCEPT ![c] = Caught(r, 400)]
               /\ UNCHANGED <<refresh_tokens, issued, history>>
          ELSE IF ~stored
          THEN /\ regs' = [regs EXCEPT ![c] = Caught(r, 500)]
               /\ UNCHANGED <<refresh_tokens, issued, history>>
          ELSE /\ refresh_tokens' =
                    Append(refresh_tokens, NewRefreshToken(r.userId, refreshToken))
               /\ issued' = issued \cup {refreshToken}
               /\ history' = Handed(refreshToken)
               /\ regs' = [regs EXCEPT ![c].pc = "done", ![c].res = 201,
                                       ![c].releases = @ + 1]
  /\ UNCHANGED <<users, apptVars, availVars, now, calls, auto_increment, server>>

(***************************************************************************)
(* DELETE /users/:id behind authenticateToken and authorizeRoles('admin'), *)
(* called by account 1: the SELECT of the row and the DELETE, whose        *)
(* foreign keys ON DELETE CASCADE remove the account's doctors row, its    *)
(* refresh tokens, its appointments as a patient, and the availability     *)
(* windows and appointments of its doctors row.  The rows that stay keep   *)
(* their order in the sequences.                                           *)
(***************************************************************************)
(* A faulty variant: doctors.user_id without ON DELETE CASCADE. *)
DoctorsKept(userId) == {}

DoctorsOf(userId) == {d \in DOMAIN doctors : doctors[d].user_id = userId}

DeleteUser(c, targets) ==
  /\ CallFree(c)
  /\ \E userId \in targets :
       LET r == [NoCall EXCEPT !.op = "delete", !.user = userId, !.pc = "done"]
           gone == DoctorsOf(userId)
       IN IF ~ActiveUser(1)
          THEN /\ Call(c, [r EXCEPT !.res = 401])
               /\ UNCHANGED <<users, doctors, appointments, refresh_tokens,
                              doctor_availability>>
          ELSE IF userId = 1
          THEN /\ Call(c, [r EXCEPT !.res = 400])
               /\ UNCHANGED <<users, doctors, appointments, refresh_tokens,
                              doctor_availability>>
          ELSE IF userId \notin DOMAIN users
          THEN /\ Call(c, [r EXCEPT !.res = 404])
               /\ UNCHANGED <<users, doctors, appointments, refresh_tokens,
                              doctor_availability>>
          ELSE /\ users' = [u \in DOMAIN users \ {userId} |-> users[u]]
               /\ doctors' = [d \in DOMAIN doctors \ gone |-> doctors[d]]
               /\ refresh_tokens' =
                    SelectSeq(refresh_tokens, LAMBDA row : row.user_id # userId)
               /\ appointments' =
                    SelectSeq(appointments,
                              LAMBDA row : row.patient_id # userId
                                           /\ row.doctor_id \notin gone)
               /\ doctor_availability' =
                    SelectSeq(doctor_availability,
                              LAMBDA row : row.doctor_id \notin gone)
               /\ Call(c, [r EXCEPT !.res = 200])
  /\ UNCHANGED <<reqs, issued, now, history, gets, replaced, regVars, server>>

(***************************************************************************)
(* The state after the migrations and the registrations: the accounts,    *)
(* both doctors available at a fee of 100, the Monday windows of the seed  *)
(* data (doctor 1 from 09:00 to 17:00, doctor 2 from 10:00 to 18:00), no   *)
(* appointment, no refresh token, no request, time 0.                      *)
(***************************************************************************)
InitData ==
  /\ users = [u \in UserIds |->
                [role |-> Role(u), is_active |-> TRUE, password_hash |-> "pw1",
                 email |-> Email(u)]]
  /\ doctors = [d \in DoctorIds |->
                  [user_id |-> d + 3, consultation_fee |-> 100, is_available |-> TRUE,
                   license_number |-> License(d)]]
  /\ appointments = << >>
  /\ reqs = [c \in Clients |-> Idle]
  /\ refresh_tokens = << >>
  /\ issued = {}
  /\ now = 0
  /\ calls = [c \in Clients |-> NoCall]
  /\ history = [redeemed |-> {}, stale |-> {}, changed |-> {}]
  /\ doctor_availability =
       <<[doctor_id |-> 1, day_of_week |-> "monday", start_time |-> 540,
          end_time |-> 1020, is_active |-> TRUE],
         [doctor_id |-> 2, day_of_week |-> "monday", start_time |-> 600,
          end_time |-> 1080, is_active |-> TRUE]>>
  /\ gets = [c \in Clients |-> NoGet]
  /\ replaced = [d \in DoctorIds |->
                   {SelectSeq(doctor_availability,
                              LAMBDA row : row.doctor_id = d)}]
  /\ regs = [c \in Clients |-> NoRegister]
  /\ auto_increment = [users |-> 6, doctors |-> 3]

(* The server runs in UTC and the requests arrive at 00:00 of day 1, a Monday. *)
Init ==
  /\ InitData
  /\ server = [clock |-> Date(1), offset |-> 0]

(***************************************************************************)
(* Spec: the appointment lifecycle with one request at a time.  Patient 2  *)
(* books doctor 1 (account 4 tries to); every account updates and cancels. *)
(***************************************************************************)
Times == {600, 630}

Bodies ==
  {[NoUpdates EXCEPT !.appointmentTime = 630, !.reasonForVisit = "follow-up"],
   [NoUpdates EXCEPT !.status = "confirmed"],
   [NoUpdates EXCEPT !.status = "completed", !.notes = "seen", !.type = "virtual",
                     !.durationMinutes = 45],
   [NoUpdates EXCEPT !.status = "scheduled"],
   [NoUpdates EXCEPT !.consultationFee = 1],
   NoUpdates}

Next ==
  \/ CreateBegin(1, {2, 4}, {1}, {1}, Times)
  \/ CreateRead(1)
  \/ CreateWrite(1)
  \/ UpdateBegin(1, UserIds, Bodies)
  \/ UpdateRead(1)
  \/ UpdateWrite(1)
  \/ Cancel(1, UserIds)

Spec == Init /\ [][Next]_vars

(***************************************************************************)
(* SpecRace: two clients book doctor 1 at the same times while the admin   *)
(* cancels.                                                                *)
(***************************************************************************)
NextRace ==
  \/ \E c \in Clients : CreateBegin(c, {2, 3}, {1}, {1}, Times)
  \/ \E c \in Clients : CreateRead(c)
  \/ \E c \in Clients : CreateWrite(c)
  \/ \E c \in Clients : Cancel(c, {1})

SpecRace == Init /\ [][NextRace]_vars

(***************************************************************************)
(* SpecConc: two clients create, reschedule, change the status of and      *)
(* cancel the appointments of doctor 1 concurrently.                       *)
(***************************************************************************)
ConcBodies ==
  {[NoUpdates EXCEPT !.appointmentTime = 630],
   [NoUpdates EXCEPT !.appointmentTime = 600],
   [NoUpdates EXCEPT !.status = "in-progress"],
   [NoUpdates EXCEPT !.status = "scheduled"]}

NextConc ==
  \/ \E c \in Clients : CreateBegin(c, {2}, {1}, {1}, Times)
  \/ \E c \in Clients : CreateRead(c)
  \/ \E c \in Clients : CreateWrite(c)
  \/ \E c \in Clients : UpdateBegin(c, {1, 2, 4}, ConcBodies)
  \/ \E c \in Clients : UpdateRead(c)
  \/ \E c \in Clients : UpdateWrite(c)
  \/ \E c \in Clients : Cancel(c, {2})

SpecConc == Init /\ [][NextConc]_vars

(***************************************************************************)
(* SpecFee: one client books, updates and cancels while doctor 1 changes   *)
(* the consultation fee.                                                   *)
(***************************************************************************)
FeeBodies ==
  {[NoUpdates EXCEPT !.consultationFee = 1],
   [NoUpdates EXCEPT !.consultationFee = 1, !.status = "confirmed"],
   [NoUpdates EXCEPT !.appointmentTime = 630, !.reasonForVisit = "follow-up"]}

NextFee ==
  \/ CreateBegin(1, {2}, {1}, {1}, Times)
  \/ CreateRead(1)
  \/ CreateWrite(1)
  \/ UpdateBegin(1, {1, 2, 4}, FeeBodies)
  \/ UpdateRead(1)
  \/ UpdateWrite(1)
  \/ Cancel(1, {2, 4})
  \/ UpdateDoctorProfile({1})

SpecFee == Init /\ [][NextFee]_vars

(***************************************************************************)
(* SpecRotate: one client logs in to accounts 2 and 3 and refreshes, one   *)
(* call after the other, while time passes.                                *)
(***************************************************************************)
NextRotate ==
  \/ LoginSelect(1, {2, 3}, Passwords)
  \/ LoginInsert(1)
  \/ RefreshSelect(1)
  \/ RefreshRevoke(1)
  \/ RefreshInsert(1)
  \/ Tick

SpecRotate == Init /\ [][NextRotate]_vars

(***************************************************************************)
(* SpecAuth: client 1 logs in to account 2, client 2 changes its password  *)
(* from pw1 to pw2, and both refresh, concurrently.                        *)
(***************************************************************************)
NextAuth ==
  \/ LoginSelect(1, {2}, Passwords)
  \/ LoginInsert(1)
  \/ \E c \in Clients : RefreshSelect(c)
  \/ \E c \in Clients : RefreshRevoke(c)
  \/ \E c \in Clients : RefreshInsert(c)
  \/ PasswordCheck(2, {2}, {"pw1"}, {"pw2"})
  \/ PasswordUpdate(2)
  \/ PasswordRevoke(2)
  \/ Tick

SpecAuth == Init /\ [][NextAuth]_vars

(***************************************************************************)
(* SpecAccess: client 1 logs in to account 2 and calls GET /auth/me while  *)
(* the admin, client 2, deactivates and reactivates accounts.              *)
(***************************************************************************)
NextAccess ==
  \/ LoginSelect(1, {2}, Passwords)
  \/ LoginInsert(1)
  \/ StatusUpdate(2, {1, 2})
  \/ StatusRevoke(2)
  \/ authenticateToken(1)
  \/ GetMe(1)
  \/ Tick

SpecAccess == Init /\ [][NextAccess]_vars

(***************************************************************************)
(* SpecCreate: patient 2 books doctors 1, 2 and the missing doctor 3 and   *)
(* patient 3 books doctor 2, while doctor 1 switches is_available, the     *)
(* admin deactivates and reactivates the account of doctor 2, and the      *)
(* admin cancels.                                                          *)
(***************************************************************************)
NextCreate ==
  \/ CreateBegin(1, {2}, {1, 2, 3}, {1}, Times)
  \/ CreateBegin(2, {3}, {2}, {1}, {600})
  \/ \E c \in Clients : CreateRead(c)
  \/ \E c \in Clients : CreateWrite(c)
  \/ Cancel(1, {1})
  \/ UpdateDoctorAvailable({1})
  \/ StatusUpdate(2, {5})
  \/ StatusRevoke(2)

SpecCreate == Init /\ [][NextCreate]_vars

(***************************************************************************)
(* SpecSlots: doctor 1 replaces the windows by one window, client 2 asks   *)
(* for the slots of doctor 1 on the days 0 (past), 1 (Monday) and 2.       *)
(***************************************************************************)
Slot(dayOfWeek, startTime, endTime) ==
  [dayOfWeek |-> dayOfWeek, startTime |-> startTime, endTime |-> endTime]

OneWindow ==
  {<<Slot("monday", 540, 1020)>>, <<Slot("Monday", 540, 600)>>,
   <<Slot("monday", 545, 615)>>, <<Slot("monday", 1380, 1439)>>,
   <<Slot("monday", 600, 600)>>, <<Slot("tuesday", 0, 45)>>}

NextSlots ==
  \/ SetWindowsBegin(1, {4}, OneWindow)
  \/ SetWindowsDelete(1)
  \/ SetWindowsInsert(1)
  \/ SetWindowsCommit(1)
  \/ GetAvailability(2, {1}, {0, 1, 2})
  \/ GetAvailabilitySlots(2)

SpecSlots == Init /\ [][NextSlots]_vars

(***************************************************************************)
(* SpecBooked: patient 2 books doctor 1 on day 1 at 10:00, 10:05 and       *)
(* 10:30, the admin sets the duration to 15 or 45 minutes and cancels,     *)
(* client 2 asks for the slots of doctor 1 on day 1 (window 09:00-17:00).  *)
(***************************************************************************)
BookedTimes == {600, 605, 630}

Durations ==
  {[NoUpdates EXCEPT !.durationMinutes = 15], [NoUpdates EXCEPT !.durationMinutes = 45]}

NextBooked ==
  \/ CreateBegin(1, {2}, {1}, {1}, BookedTimes)
  \/ CreateRead(1)
  \/ CreateWrite(1)
  \/ UpdateBegin(1, {1}, Durations)
  \/ UpdateRead(1)
  \/ UpdateWrite(1)
  \/ Cancel(1, {1})
  \/ GetAvailability(2, {1}, {1})
  \/ GetAvailabilitySlots(2)

SpecBooked == Init /\ [][NextBooked]_vars

(***************************************************************************)
(* SpecWindows: doctor 1 replaces the windows by lists of two Monday       *)
(* windows, of a window that starts after it ends, and of a good window    *)
(* followed by one without endTime or with a day outside the ENUM, while   *)
(* client 2 reads the doctor and the slots of Monday, day 1.               *)
(***************************************************************************)
Lists ==
  {<<Slot("monday", 540, 720), Slot("monday", 780, 1020)>>,
   <<Slot("monday", 480, 600), Slot("Tuesday", 540, 600)>>,
   <<Slot("monday", 660, 600)>>,
   <<Slot("monday", 600, 660), [dayOfWeek |-> "monday", startTime |-> 700]>>,
   <<Slot("monday", 600, 660), Slot("someday", 540, 600)>>}

NextWindows ==
  \/ SetWindowsBegin(1, {2, 4}, Lists)
  \/ SetWindowsDelete(1)
  \/ SetWindowsInsert(1)
  \/ SetWindowsCommit(1)
  \/ GetAvailability(2, {1}, {1})
  \/ GetAvailabilitySlots(2)
  \/ GetDoctor(2, {1})
  \/ GetDoctorAvailability(2)

SpecWindows == Init /\ [][NextWindows]_vars

(***************************************************************************)
(* SpecLogout: client 1 logs in to account 2 and logs out as account 2     *)
(* with any issued refresh token, those of account 3 included, or none,    *)
(* while client 2 logs in to account 3.                                    *)
(***************************************************************************)
NextLogout ==
  \/ LoginSelect(1, {2}, {"pw1"})
  \/ LoginInsert(1)
  \/ LoginSelect(2, {3}, {"pw1"})
  \/ LoginInsert(2)
  \/ Logout(1, {2})
  \/ LogoutRevoke(1)
  \/ Tick

SpecLogout == Init /\ [][NextLogout]_vars

(***************************************************************************)
(* SpecDeactivate: client 1 logs in to account 2 and refreshes while the   *)
(* admin, client 2, deactivates and reactivates account 2.                 *)
(***************************************************************************)
NextDeactivate ==
  \/ LoginSelect(1, {2}, {"pw1"})
  \/ LoginInsert(1)
  \/ RefreshSelect(1)
  \/ RefreshRevoke(1)
  \/ RefreshInsert(1)
  \/ StatusUpdate(2, {2})
  \/ StatusRevoke(2)
  \/ Tick

SpecDeactivate == Init /\ [][NextDeactivate]_vars

(***************************************************************************)
(* SpecCancel: patient 2 books doctor 1; every account cancels, from two   *)
(* clients.                                                                *)
(***************************************************************************)
NextCancel ==
  \/ CreateBegin(1, {2}, {1}, {1}, Times)
  \/ CreateRead(1)
  \/ CreateWrite(1)
  \/ Cancel(1, UserIds)
  \/ Cancel(2, UserIds)

SpecCancel == Init /\ [][NextCancel]_vars

(***************************************************************************)
(* SpecRegister: client 1 registers patients and doctors with a taken and  *)
(* a new email and a taken and a new license number, client 2 registers a  *)
(* doctor with the same new email and license number, concurrently, while  *)
(* the admin deletes accounts.                                             *)
(***************************************************************************)
Emails == {"p2@x", "new@x"}

Licenses == {"", "L1", "L9"}

NextRegister ==
  \/ RegisterBegin(1, Emails, {"patient", "doctor"}, {"", "cardiology"}, Licenses)
  \/ RegisterBegin(2, {"new@x"}, {"doctor"}, {"cardiology"}, {"L9"})
  \/ \E c \in Clients : RegisterInsertUser(c)
  \/ \E c \in Clients : RegisterInsertDoctor(c)
  \/ \E c \in Clients : RegisterCommit(c)
  \/ \E c \in Clients : RegisterToken(c)
  \/ DeleteUser(1, {1, 4, 6, 9})

SpecRegister == Init /\ [][NextRegister]_vars

(***************************************************************************)
(* SpecZone: the server runs five hours west of UTC, in UTC, or five and a *)
(* half hours east of it, and the requests arrive at 01:00 or 12:00 UTC of *)
(* day 1.  Patient 2 books doctor 1 and a client asks for the slots of     *)
(* both doctors, on the days 0, 1, 2 and 8.                                *)
(***************************************************************************)
Offsets == {-300, 0, 330}

Clocks == {Date(1) + 60, Date(1) + 720}

ZoneDates == {0, 1, 2, 8}

InitZone ==
  /\ InitData
  /\ server \in [clock : Clocks, offset : Offsets]

NextZone ==
  \/ CreateBegin(1, {2}, {1}, ZoneDates, {600})
  \/ CreateRead(1)
  \/ CreateWrite(1)
  \/ GetAvailability(2, DoctorIds, ZoneDates)
  \/ GetAvailabilitySlots(2)

SpecZone == InitZone /\ [][NextZone]_vars

(***************************************************************************)
(* SpecPast: the requests arrive on day 2.  Patients 2 and 3 book doctor 1 *)
(* on the days 1 and 2; the patients, the admin and the doctor move the    *)
(* appointments to the days 1 and 3 and to another time.                   *)
(***************************************************************************)
PastBodies ==
  {[NoUpdates EXCEPT !.appointmentDate = 1],
   [NoUpdates EXCEPT !.appointmentDate = 3],
   [NoUpdates EXCEPT !.appointmentTime = 630],
   [NoUpdates EXCEPT !.appointmentDate = 1, !.appointmentTime = 630]}

InitPast ==
  /\ InitData
  /\ server = [clock |-> Date(2), offset |-> 0]

NextPast ==
  \/ CreateBegin(1, {2, 3}, {1}, {1, 2}, Times)
  \/ CreateRead(1)
  \/ CreateWrite(1)
  \/ UpdateBegin(1, {1, 2, 4}, PastBodies)
  \/ UpdateRead(1)
  \/ UpdateWrite(1)

SpecPast == InitPast /\ [][NextPast]_vars

(***************************************************************************)
(* The steps of a client's update and cancel, for the properties.          *)
(***************************************************************************)
UpdateReadStep(c) ==
  reqs[c].op = "update" /\ reqs[c].pc = "read" /\ reqs'[c].pc # "read"

UpdateWriteStep(c) ==
  reqs[c].op = "update" /\ reqs[c].pc = "write" /\ reqs'[c].pc = "done"

CancelStep(c) ==
  /\ reqs'[c].op = "cancel"
  /\ reqs'[c] # reqs[c] \/ appointments' # appointments

Party(u, row) ==
  \/ u = row.patient_id
  \/ u = doctors[row.doctor_id].user_id
  \/ Role(u) = "admin"

(***************************************************************************)
(* C7.  update and cancel of an existing appointment take effect only for  *)
(* the appointment's patient, the account of its doctor, or an admin: any  *)
(* other caller is answered 403 and the table is unchanged; an admin is    *)
(* never answered 403, an admin's cancel succeeds, and an admin's update   *)
(* succeeds unless the new slot is taken or the body holds no column.      *)
(***************************************************************************)
OwnershipEnforced ==
  [][\A c \in Clients :
       LET r == reqs[c]
           r2 == reqs'[c]
       IN /\ (UpdateReadStep(c) /\ r.id \in DOMAIN appointments) =>
               /\ ~Party(r.user, appointments[r.id]) => r2.pc = "done" /\ r2.res = 403
               /\ Role(r.user) = "admin" => r2.res # 403
               /\ appointments' = appointments
          /\ UpdateWriteStep(c) =>
               /\ Party(r.user, appointments[r.id])
               /\ r2.res # 403
               /\ (Role(r.user) = "admin" /\ r2.res # 200) =>
                     r2.res = 409 \/ Keys(r.updates) \cap fieldMapping = {}
          /\ (CancelStep(c) /\ r2.id \in DOMAIN appointments) =>
               IF Party(r2.user, appointments[r2.id])
               THEN /\ r2.res = 200
                    /\ appointments' = [appointments EXCEPT ![r2.id].status = "cancelled"]
               ELSE r2.res = 403 /\ appointments' = appointments]_vars

(* A patient was refused on another patient's appointment, one that the   *)
(* doctor or the admin had confirmed.                                      *)
OwnershipWitness ==
  /\ reqs[1].op = "update" /\ reqs[1].pc = "done" /\ reqs[1].res = 403
  /\ reqs[1].id \in DOMAIN appointments
  /\ Role(reqs[1].user) = "patient"
  /\ reqs[1].user # appointments[reqs[1].id].patient_id
  /\ appointments[reqs[1].id].status = "confirmed"

(***************************************************************************)
(* C8.  The status of an appointment changes only along scheduled ->       *)
(* {confirmed, in-progress, cancelled, no-show}, confirmed ->              *)
(* {in-progress, cancelled, no-show}, in-progress -> completed; completed, *)
(* cancelled and no-show are final.                                        *)
(***************************************************************************)
StatusEdges ==
  {<<"scheduled", "confirmed">>, <<"scheduled", "in-progress">>,
   <<"scheduled", "cancelled">>, <<"scheduled", "no-show">>,
   <<"confirmed", "in-progress">>, <<"confirmed", "cancelled">>,
   <<"confirmed", "no-show">>, <<"in-progress", "completed">>}

StatusStateMachine ==
  [][\A id \in DOMAIN appointments :
       appointments'[id].status # appointments[id].status =>
         <<appointments[id].status, appointments'[id].status>> \in StatusEdges]_vars

(***************************************************************************)
(* C9.  An update by the appointment's patient succeeds only if the status *)
(* is scheduled and the body holds no key besides date, time and reason,   *)
(* and then writes no other column; otherwise it is answered 403 and the   *)
(* table is unchanged.                                                     *)
(***************************************************************************)
PatientKeys == {"appointmentDate", "appointmentTime", "reasonForVisit"}

PatientMayUpdate(row, updates) ==
  row.status = "scheduled" /\ Keys(updates) \subseteq PatientKeys

SameButDateTimeReason(old, new) ==
  new = [old EXCEPT !.appointment_date = new.appointment_date,
                    !.appointment_time = new.appointment_time,
                    !.reason_for_visit = new.reason_for_visit]

PatientUpdateRestricted ==
  [][\A c \in Clients :
       LET r == reqs[c]
           r2 == reqs'[c]
           owner == /\ r.id \in DOMAIN appointments
                    /\ Role(r.user) = "patient"
                    /\ r.user = appointments[r.id].patient_id
       IN /\ (UpdateReadStep(c) /\ owner) =>
               /\ appointments' = appointments
               /\ ~PatientMayUpdate(appointments[r.id], r.updates) =>
                     r2.pc = "done" /\ r2.res = 403
          /\ (UpdateWriteStep(c) /\ owner) =>
               IF r2.res = 200
               THEN /\ PatientMayUpdate(appointments[r.id], r.updates)
                    /\ SameButDateTimeReason(appointments[r.id], appointments'[r.id])
               ELSE appointments' = appointments]_vars

(* The patient of a scheduled appointment was refused a body with status, *)
(* notes, type and duration.                                               *)
PatientUpdateWitness ==
  /\ reqs[1].op = "update" /\ reqs[1].pc = "done" /\ reqs[1].res = 403
  /\ reqs[1].id \in DOMAIN appointments
  /\ reqs[1].user = appointments[reqs[1].id].patient_id
  /\ appointments[reqs[1].id].status = "scheduled"
  /\ {"status", "notes", "type", "durationMinutes"} \subseteq Keys(reqs[1].updates)

(***************************************************************************)
(* The steps of a client's create, for the properties.                     *)
(***************************************************************************)
CreateReadStep(c) ==
  reqs[c].op = "create" /\ reqs[c].pc = "read" /\ reqs'[c].pc = "write"

CreateWriteStep(c) ==
  reqs[c].op = "create" /\ reqs[c].pc = "write" /\ reqs'[c].pc = "done"

SameSlot(a, b) ==
  /\ a.doctor_id = b.doctor_id
  /\ a.appointment_date = b.appointment_date
  /\ a.appointment_time = b.appointment_time

(***************************************************************************)
(* C1.  Of two create calls for the same doctor, date and time that ran    *)
(* concurrently, each with no third one, and both arrived while the slot   *)
(* held no non-terminal appointment, exactly one is answered 201 and the   *)
(* other 409; and no two non-terminal appointments are ever stored at one  *)
(* (doctor, date, time).                                                   *)
(***************************************************************************)
ConcurrentCreateOneWins ==
  /\ \A s \in Clients, t \in Clients :
       ( /\ s # t
         /\ reqs[s].op = "create" /\ reqs[s].pc = "done"
         /\ reqs[t].op = "create" /\ reqs[t].pc = "done"
         /\ reqs[s].raced = 1 /\ reqs[t].raced = 1
         /\ reqs[s].doctorId = reqs[t].doctorId
         /\ reqs[s].date = reqs[t].date
         /\ reqs[s].time = reqs[t].time
         /\ reqs[s].free /\ reqs[t].free )
       => {reqs[s].res, reqs[t].res} = {201, 409}
  /\ \A i \in DOMAIN appointments, j \in DOMAIN appointments :
       ( /\ i # j
         /\ SameSlot(appointments[i], appointments[j]) )
       => ~ /\ appointments[i].status \in NonTerminal
            /\ appointments[j].status \in NonTerminal

(***************************************************************************)
(* C2.  No two distinct appointments of one doctor whose status is         *)
(* scheduled, confirmed or in-progress have the same date and time.        *)
(***************************************************************************)
NoDoubleBooking ==
  \A i \in DOMAIN appointments, j \in DOMAIN appointments :
    ( /\ i # j
      /\ appointments[i].doctor_id = appointments[j].doctor_id
      /\ appointments[i].status \in NonTerminal
      /\ appointments[j].status \in NonTerminal )
    => \/ appointments[i].appointment_date # appointments[j].appointment_date
       \/ appointments[i].appointment_time # appointments[j].appointment_time

(* Doctor 1 has two non-terminal appointments, and a reschedule onto the  *)
(* other one's time was answered 409.                                      *)
NoDoubleBookingWitness ==
  /\ Len(appointments) = 2
  /\ appointments[1].status \in NonTerminal
  /\ appointments[2].status \in NonTerminal
  /\ appointments[1].doctor_id = appointments[2].doctor_id
  /\ \E c \in Clients :
       /\ reqs[c].op = "update" /\ reqs[c].pc = "done" /\ reqs[c].res = 409
       /\ reqs[c].id \in DOMAIN appointments
       /\ IsSet(reqs[c].updates, "appointmentTime")
       /\ reqs[c].updates.appointmentTime # appointments[reqs[c].id].appointment_time

(***************************************************************************)
(* C10.  A create answered 201 stores exactly one new appointment, with    *)
(* status scheduled, payment status pending and the fee the handler read   *)
(* from the doctor in its transaction; no other step stores an             *)
(* appointment, and no step changes the fee of a stored appointment.       *)
(***************************************************************************)
FeeCopiedAtBooking ==
  [][/\ \A id \in DOMAIN appointments :
          /\ id \in DOMAIN appointments'
          /\ appointments'[id].consultation_fee = appointments[id].consultation_fee
     /\ Len(appointments') # Len(appointments) =>
          \E c \in Clients : CreateWriteStep(c) /\ reqs'[c].res = 201
     /\ \A c \in Clients :
          /\ CreateReadStep(c) =>
               reqs'[c].fee = doctors[reqs[c].doctorId].consultation_fee
          /\ CreateWriteStep(c) =>
               IF reqs'[c].res = 201
               THEN /\ Len(appointments') = Len(appointments) + 1
                    /\ SubSeq(appointments', 1, Len(appointments)) = appointments
                    /\ reqs'[c].insertId = Len(appointments')
                    /\ appointments'[Len(appointments')].status = "scheduled"
                    /\ appointments'[Len(appointments')].payment_status = "pending"
                    /\ appointments'[Len(appointments')].consultation_fee = reqs[c].fee
               ELSE appointments' = appointments]_vars

(* A confirmed appointment keeps the fee of its booking after the doctor  *)
(* changed the consultation fee and an update with consultationFee in its  *)
(* body was answered 200.                                                  *)
FeeCopiedWitness ==
  /\ reqs[1].op = "update" /\ reqs[1].pc = "done" /\ reqs[1].res = 200
  /\ IsSet(reqs[1].updates, "consultationFee")
  /\ appointments[reqs[1].id].status = "confirmed"
  /\ appointments[reqs[1].id].consultation_fee = 100
  /\ doctors[appointments[reqs[1].id].doctor_id].consultation_fee = 150

(***************************************************************************)
(* C3.  One call after the other: a refresh that presents a token which an *)
(* earlier refresh redeemed is answered 401 and generates no token; a      *)
(* refresh that presents a token no refresh has redeemed is answered 200.  *)
(***************************************************************************)
RefreshRotation ==
  \A c \in Clients :
    (calls[c].op = "refresh" /\ calls[c].pc = "done") =>
      IF calls[c].reuse
      THEN calls[c].res = 401 /\ calls[c].newToken = NoToken
      ELSE calls[c].res = 200

(***************************************************************************)
(* C4.  No two refresh calls that present the same token both succeed on   *)
(* the same refresh_tokens row.                                            *)
(***************************************************************************)
RedeemedAtMostOnce ==
  \A s \in Clients, t \in Clients :
    ( /\ s # t
      /\ calls[s].op = "refresh" /\ calls[s].pc = "done" /\ calls[s].res = 200
      /\ calls[t].op = "refresh" /\ calls[t].pc = "done" /\ calls[t].res = 200
      /\ calls[s].token = calls[t].token )
    => calls[s].validToken # calls[t].validToken

(***************************************************************************)
(* C5.  A refresh that presents a token issued before a completed password *)
(* change of its account is answered 401, and from the completion of the   *)
(* change to the account's next login every refresh_tokens row of the      *)
(* account is revoked.                                                     *)
(***************************************************************************)
PasswordChangeRevokesAll ==
  /\ \A c \in Clients :
       (calls[c].op = "refresh" /\ calls[c].stale) =>
         calls[c].pc = "done" /\ calls[c].res = 401
  /\ \A u \in history.changed :
       \A i \in DOMAIN refresh_tokens :
         refresh_tokens[i].user_id = u => refresh_tokens[i].is_revoked

(***************************************************************************)
(* C6.  authenticateToken with an unexpired access token of account X      *)
(* answers 401 without running the handler whenever X is deactivated at    *)
(* that moment, and lets the request through whenever X is active.         *)
(***************************************************************************)
AuthenticateStep(c) ==
  CallFree(c) /\ calls'[c].op = "me" /\ calls'[c] # calls[c]

DeactivationImmediate ==
  [][\A c \in Clients :
       AuthenticateStep(c) =>
         LET token == calls'[c].token
         IN /\ ~users[token.userId].is_active =>
                 calls'[c].pc = "done" /\ calls'[c].res = 401
            /\ (users[token.userId].is_active /\ now < token.iat + AccessTtl) =>
                 calls'[c].pc = "handler"]_vars

(* Account 2, deactivated, was answered 401 on an unexpired token.        *)
DeactivationWitness ==
  /\ calls[1].op = "me" /\ calls[1].pc = "done" /\ calls[1].res = 401
  /\ calls[1].token \in issued
  /\ now < calls[1].token.iat + AccessTtl
  /\ ~users[calls[1].token.userId].is_active

(***************************************************************************)
(* C11.  A create for a doctor that does not exist, is not available or    *)
(* whose account is inactive is answered 404; a create for a usable doctor *)
(* whose slot a scheduled or confirmed appointment holds, or whose INSERT  *)
(* meets a stored (doctor, date, time), is answered 409; a create that is  *)
(* not answered 201 is answered 403, 404 or 409, and no step of a create   *)
(* other than the one answered 201 changes the appointments.               *)
(***************************************************************************)
CreateStep(c) ==
  /\ reqs'[c].op = "create"
  /\ [reqs'[c] EXCEPT !.raced = 0] # [reqs[c] EXCEPT !.raced = 0]

DoctorUsable(d) ==
  /\ d \in DoctorIds
  /\ doctors[d].is_available
  /\ users[doctors[d].user_id].is_active

CreateFailsCleanly ==
  [][\A c \in Clients :
       LET r == reqs[c]
           r2 == reqs'[c]
       IN CreateStep(c) =>
            /\ r2.res # 201 => appointments' = appointments
            /\ r2.pc = "done" => r2.res \in {201, 403, 404, 409}
            /\ (r.op = "create" /\ r.pc = "read") =>
                 /\ ~DoctorUsable(r.doctorId) => r2.pc = "done" /\ r2.res = 404
                 /\ ( /\ DoctorUsable(r.doctorId)
                      /\ \E i \in DOMAIN appointments :
                           /\ SameSlot(appointments[i], NewAppointment(r))
                           /\ appointments[i].status \in ConflictStatuses )
                    => r2.pc = "done" /\ r2.res = 409
            /\ (r.op = "create" /\ r.pc = "write") =>
                 /\ r2.pc = "done"
                 /\ (\E i \in DOMAIN appointments :
                        SameSlot(appointments[i], NewAppointment(r)))
                    <=> r2.res = 409
                 /\ r2.res = 201 =>
                      appointments' = Append(appointments, NewAppointment(r))]_vars

(* One create was answered 404 for the existing doctor 1, switched to not *)
(* available, and the other 409 for a slot of doctor 2 that a stored       *)
(* scheduled appointment holds.                                            *)
CreateFailsWitness ==
  /\ reqs[1].op = "create" /\ reqs[1].pc = "done" /\ reqs[1].res = 404
  /\ reqs[1].doctorId = 1 /\ ~doctors[1].is_available
  /\ reqs[2].op = "create" /\ reqs[2].pc = "done" /\ reqs[2].res = 409
  /\ reqs[2].doctorId = 2
  /\ \E i \in DOMAIN appointments :
       /\ SameSlot(appointments[i], NewAppointment(reqs[2]))
       /\ appointments[i].status = "scheduled"
  /\ Len(appointments) = 1

(***************************************************************************)
(* C12.  An update that sets the date or the time, by a caller the         *)
(* permission checks let through, is answered 409 and changes no           *)
(* appointment when another scheduled or confirmed appointment of the same *)
(* doctor holds the resulting (date, time); an update whose resulting      *)
(* (date, time) is the appointment's own is never answered 409; and an     *)
(* update answered 409 changes no appointment.                             *)
(***************************************************************************)
Target(updates, row) ==
  [row EXCEPT
     !.appointment_date = IF updates.appointmentDate # 0
                          THEN updates.appointmentDate ELSE @,
     !.appointment_time = IF updates.appointmentTime # 0
                          THEN updates.appointmentTime ELSE @]

Occupied(id, target) ==
  \E i \in DOMAIN appointments :
     /\ i # id
     /\ SameSlot(appointments[i], target)
     /\ appointments[i].status \in {"scheduled", "confirmed"}

Permitted(u, row, updates) ==
  /\ Party(u, row)
  /\ Role(u) = "patient" =>
       row.status = "scheduled" /\ Keys(updates) \subseteq PatientKeys

RescheduleConflict ==
  [][\A c \in Clients :
       LET r == reqs[c]
           r2 == reqs'[c]
       IN (r.op = "update" /\ r.id \in DOMAIN appointments) =>
            LET row == appointments[r.id]
                target == Target(r.updates, row)
                moves == r.updates.appointmentDate # 0 \/ r.updates.appointmentTime # 0
            IN /\ UpdateReadStep(c) =>
                    /\ (moves /\ Permitted(r.user, row, r.updates)
                              /\ Occupied(r.id, target)) =>
                         r2.pc = "done" /\ r2.res = 409
                    /\ SameSlot(target, row) => r2.res # 409
                    /\ appointments' = appointments
               /\ UpdateWriteStep(c) =>
                    /\ SameSlot(target, row) => r2.res # 409
                    /\ r2.res = 409 => appointments' = appointments]_vars

(* The patient of a scheduled appointment at 600 asked for 630, which the *)
(* doctor's other scheduled appointment holds, and was answered 409.       *)
RescheduleWitness ==
  /\ reqs[1].op = "update" /\ reqs[1].pc = "done" /\ reqs[1].res = 409
  /\ Len(appointments) = 2
  /\ LET row == appointments[reqs[1].id]
     IN /\ reqs[1].user = row.patient_id
        /\ row.status = "scheduled"
        /\ row.appointment_time = 600
        /\ reqs[1].updates.appointmentTime = 630
        /\ Occupied(reqs[1].id, Target(reqs[1].updates, row))

(***************************************************************************)
(* C13.  When the doctor has one active window on the weekday of the date  *)
(* and no scheduled, confirmed or in-progress appointment on the date, the *)
(* slots of the response are the times start + 30k (k = 0, 1, ...) before  *)
(* end, each once and in ascending order; for 09:00 to 17:00 they are 16.  *)
(***************************************************************************)
ParseTime(time) == 60 * time[1] + time[2]

Answered(c) ==
  gets[c].op = "availability" /\ gets[c].pc = "done" /\ gets[c].res = 200

NoLive(doctorId, date) ==
  \A i \in DOMAIN appointments :
     ~ /\ appointments[i].doctor_id = doctorId
       /\ appointments[i].appointment_date = date
       /\ appointments[i].status \in {"scheduled", "confirmed", "in-progress"}

SlotsOfOneWindow ==
  \A c \in Clients :
    ( /\ Answered(c)
      /\ Len(gets[c].availability) = 1
      /\ NoLive(gets[c].doctorId, gets[c].date) )
    => LET start == gets[c].availability[1].start_time
           end == gets[c].availability[1].end_time
           found == gets[c].availableSlots
           expected == {t \in start..(end - 1) : (t - start) % 30 = 0}
       IN /\ {ParseTime(found[i].time) : i \in DOMAIN found} = expected
          /\ Len(found) = Cardinality(expected)
          /\ \A i \in DOMAIN found : ParseTime(found[i].time) = start + 30 * (i - 1)
          /\ (start = 540 /\ end = 1020) => Len(found) = 16

(* The slots of the window 09:00 to 17:00 were returned: 16, the last one *)
(* 16:30.                                                                  *)
SlotsOfOneWindowWitness ==
  /\ Answered(2)
  /\ Len(gets[2].availability) = 1
  /\ gets[2].availability[1].start_time = 540
  /\ gets[2].availability[1].end_time = 1020
  /\ Len(gets[2].availableSlots) = 16
  /\ gets[2].availableSlots[16].time = <<16, 30>>

(***************************************************************************)
(* The step that computes the slots of a response, the scheduled,          *)
(* confirmed and in-progress appointments it reads, the candidate times of *)
(* the window it uses and the times it returns.                            *)
(***************************************************************************)
SlotsStep(c) ==
  gets[c].op = "availability" /\ gets[c].pc = "booked" /\ gets'[c].pc = "done"

Live(doctorId, date) ==
  {i \in DOMAIN appointments :
     /\ appointments[i].doctor_id = doctorId
     /\ appointments[i].appointment_date = date
     /\ appointments[i].status \in {"scheduled", "confirmed", "in-progress"}}

Candidates(window) ==
  {t \in window.start_time..(window.end_time - 1) : (t - window.start_time) % 30 = 0}

Returned(found) == {ParseTime(found[i].time) : i \in DOMAIN found}

(***************************************************************************)
(* C14.  While the live appointments of the doctor on the date all last 30 *)
(* minutes and start at candidate times of the window, the response lists  *)
(* every candidate time except their start times: with a booking at 10:00  *)
(* it omits 10:00 and contains 09:30 and 10:30.                            *)
(***************************************************************************)
BookingRemovesItsSlot ==
  [][\A c \in Clients :
       SlotsStep(c) =>
         LET live == Live(gets[c].doctorId, gets[c].date)
             window == gets[c].availability[1]
             found == Returned(gets'[c].availableSlots)
         IN (\A i \in live :
               /\ appointments[i].duration_minutes = 30
               /\ appointments[i].appointment_time \in Candidates(window))
            => /\ found = Candidates(window) \
                            {appointments[i].appointment_time : i \in live}
               /\ (\E i \in live : appointments[i].appointment_time = 600) =>
                    600 \notin found /\ 570 \in found]_vars

(* With one live appointment, 30 minutes at 10:00, the response lists 15  *)
(* slots, 09:30 and 10:30 among them and 10:00 not.                        *)
BookingRemovesWitness ==
  /\ Answered(2)
  /\ Live(1, 1) # {}
  /\ \A i \in Live(1, 1) :
       appointments[i].appointment_time = 600 /\ appointments[i].duration_minutes = 30
  /\ Len(gets[2].availableSlots) = 15
  /\ {570, 630} \subseteq Returned(gets[2].availableSlots)
  /\ 600 \notin Returned(gets[2].availableSlots)

(***************************************************************************)
(* C15.  A candidate time c of the window is left out of the response      *)
(* exactly when some live appointment of the doctor on the date, starting  *)
(* at t and lasting d minutes, has c < t + d and t < c + 30.               *)
(***************************************************************************)
SlotsExcludeOverlaps ==
  [][\A c \in Clients :
       SlotsStep(c) =>
         LET live == Live(gets[c].doctorId, gets[c].date)
             window == gets[c].availability[1]
             found == Returned(gets'[c].availableSlots)
         IN \A t \in Candidates(window) :
              t \notin found <=>
                \E i \in live :
                   /\ t < appointments[i].appointment_time
                            + appointments[i].duration_minutes
                   /\ appointments[i].appointment_time < t + 30]_vars

(***************************************************************************)
(* C16.  With no live appointment of the doctor on the date, the response  *)
(* lists the candidate times of every active window of the weekday.        *)
(***************************************************************************)
SlotsOfEveryWindow ==
  [][\A c \in Clients :
       (SlotsStep(c) /\ Live(gets[c].doctorId, gets[c].date) = {}) =>
         Returned(gets'[c].availableSlots) =
           UNION {Candidates(gets[c].availability[i]) :
                    i \in DOMAIN gets[c].availability}]_vars

(***************************************************************************)
(* C17.  The rows that GET /doctors/:id and the availability request read  *)
(* are the active rows (of the weekday) of one complete list that the      *)
(* migration or a PUT stored, also while a PUT has deleted and inserted in *)
(* its open transaction; the stored rows of a doctor are always such a     *)
(* complete list, change only at the commit of a PUT, to the list of its   *)
(* body, and a PUT that is answered an error leaves them as they were.     *)
(***************************************************************************)
Rows(list) == {list[i] : i \in DOMAIN list}

StoredOf(d) ==
  SelectSeq(doctor_availability, LAMBDA row : row.doctor_id = d)

ReadOf(c, version) ==
  {row \in Rows(version) :
     /\ row.is_active
     /\ gets[c].op = "availability" =>
          row.day_of_week = dayNames[getDay(Date(gets[c].date)) + 1]}

HasRead(c) ==
  \/ gets[c].op = "availability" /\ gets[c].pc = "booked"
  \/ gets[c].op \in {"availability", "doctor"} /\ gets[c].pc = "done" /\ gets[c].res = 200

BadWindow(slot) ==
  \/ ~({"dayOfWeek", "startTime", "endTime"} \subseteq DOMAIN slot)
  \/ ~(slot.startTime < slot.endTime)

WindowsValidated ==
  /\ \A i \in DOMAIN doctor_availability :
       doctor_availability[i].start_time < doctor_availability[i].end_time
  /\ \A c \in Clients :
       ( /\ gets[c].op = "setWindows" /\ gets[c].pc = "done"
         /\ gets[c].res \notin {403, 404}
         /\ \E i \in DOMAIN gets[c].body : BadWindow(gets[c].body[i]) )
       => gets[c].res = 400

(***************************************************************************)
(* C19.  A step of a logout changes no refresh_tokens row of an account    *)
(* other than the caller's; a logout with a refresh token changes only     *)
(* rows of the caller that were created for that token; a logout without   *)
(* one leaves every row of the caller revoked.                             *)
(***************************************************************************)
LogoutStep(c) ==
  calls'[c].op = "logout" /\ calls'[c] # calls[c]

LogoutRevokesOnlyItsRecord ==
  [][\A c \in Clients :
       LogoutStep(c) =>
         LET u == calls'[c].user
             refreshToken == calls'[c].token
         IN /\ DOMAIN refresh_tokens' = DOMAIN refresh_tokens
            /\ \A i \in DOMAIN refresh_tokens :
                 /\ refresh_tokens[i].user_id # u =>
                      refresh_tokens'[i] = refresh_tokens[i]
                 /\ ( /\ refreshToken # NoToken
                      /\ refresh_tokens'[i] # refresh_tokens[i] )
                    => /\ refresh_tokens[i].user_id = u
                       /\ refresh_tokens[i].token = refreshToken
                 /\ ( /\ refreshToken = NoToken
                      /\ calls'[c].res = 200
                      /\ refresh_tokens[i].user_id = u )
                    => refresh_tokens'[i].is_revoked]_vars

(***************************************************************************)
(* C20.  A login to an account, or a refresh that presents a refresh token *)
(* of an account, that arrives while the account is inactive is answered   *)
(* 401 and generates no token.                                             *)
(***************************************************************************)
Arrives(c) ==
  /\ CallFree(c)
  /\ calls'[c] # calls[c]
  /\ calls'[c].op \in {"login", "refresh"}

InactiveAccountRefused ==
  [][\A c \in Clients :
       (Arrives(c) /\ ~users[calls'[c].user].is_active) =>
         /\ calls'[c].pc = "done"
         /\ calls'[c].res = 401
         /\ calls'[c].newToken = NoToken]_vars

(***************************************************************************)
(* C23.  A cancel by the appointment's patient, the account of its doctor  *)
(* or an admin is answered 200 and leaves the appointment with status      *)
(* cancelled and every other field as it was; on an appointment that is    *)
(* already cancelled it is answered 200 as well and changes nothing.       *)
(***************************************************************************)
CancelAnswered(c) ==
  reqs'[c].op = "cancel" /\ reqs'[c] # reqs[c]

CancelIdempotent ==
  [][\A c \in Clients :
       LET r2 == reqs'[c]
       IN (CancelAnswered(c) /\ r2.id \in DOMAIN appointments
             /\ Party(r2.user, appointments[r2.id])) =>
            /\ r2.res = 200
            /\ appointments' = [appointments EXCEPT ![r2.id].status = "cancelled"]
            /\ appointments[r2.id].status = "cancelled" =>
                 appointments' = appointments]_vars

(* The patient and the admin have both cancelled appointment 1, each      *)
(* answered 200, and it is cancelled.                                      *)
CancelTwiceWitness ==
  /\ reqs[1].op = "cancel" /\ reqs[1].res = 200 /\ reqs[1].id = 1
  /\ reqs[2].op = "cancel" /\ reqs[2].res = 200 /\ reqs[2].id = 1
  /\ reqs[1].user = 2 /\ reqs[2].user = 1
  /\ appointments[1].status = "cancelled"

(***************************************************************************)
(* C24.  A create for a usable doctor, and an update by a permitted caller *)
(* that sets the date or the time, is answered 409 if and only if another  *)
(* scheduled or confirmed appointment of the same doctor has the same date *)
(* and the same start time; otherwise the write goes through.              *)
(***************************************************************************)
ConflictExactMatch ==
  [][\A c \in Clients :
       LET r == reqs[c]
           r2 == reqs'[c]
       IN /\ (r.op = "create" /\ r.pc = "read" /\ r2.pc # "read"
                /\ DoctorUsable(r.doctorId)) =>
               (r2.res = 409 <=> Occupied(0, NewAppointment(r)))
          /\ CreateWriteStep(c) => r2.res = 201
          /\ (UpdateReadStep(c) /\ r.id \in DOMAIN appointments
                /\ Permitted(r.user, appointments[r.id], r.updates)) =>
               (r2.res = 409 <=>
                  /\ r.updates.appointmentDate # 0 \/ r.updates.appointmentTime # 0
                  /\ Occupied(r.id, Target(r.updates, appointments[r.id])))
          /\ UpdateWriteStep(c) => r2.res # 409]_vars

(***************************************************************************)
(* C25.  A candidate time of the doctor's window that a cancelled,         *)
(* completed or no-show appointment holds, and that no live appointment's  *)
(* span meets, is among the slots the availability request returns; and a  *)
(* create for an available doctor at a time that the availability request  *)
(* returns at that moment is answered 201.                                 *)
(***************************************************************************)
Offered(doctorId, date) ==
  LET availability == Windows(doctorId, dayNames[getDay(Date(date)) + 1])
  IN IF Len(availability) = 0 THEN {}
     ELSE Returned(slots(availability[1].start_time, availability[1].end_time,
                         bookedSlots(doctorId, date)))

Untouched(doctorId, date, t) ==
  \A i \in Live(doctorId, date) :
     ~ /\ t < appointments[i].appointment_time + appointments[i].duration_minutes
       /\ appointments[i].appointment_time < t + 30

TerminalSlotsBookable ==
  /\ [](\A i \in DOMAIN appointments :
          LET row == appointments[i]
          IN ( /\ row.status \in {"cancelled", "completed", "no-show"}
               /\ DoctorUsable(row.doctor_id)
               /\ row.appointment_time \in
                    UNION {Candidates(w) :
                             w \in Rows(Windows(row.doctor_id,
                                                dayNames[getDay(Date(row.appointment_date)) + 1]))}
               /\ Untouched(row.doctor_id, row.appointment_date, row.appointment_time) )
             => row.appointment_time \in Offered(row.doctor_id, row.appointment_date))
  /\ [][\A c \in Clients :
          LET r == reqs[c]
              r2 == reqs'[c]
          IN ( /\ r.op = "create" /\ r.pc \in {"read", "write"} /\ r2.pc # r.pc
               /\ r.time \in Offered(r.doctorId, r.date) )
             => r2.pc = "write" \/ r2.res = 201]_vars

(***************************************************************************)
(* C29.  An update by a permitted actor whose body holds no field that     *)
(* the UPDATE statement writes is answered 400 and leaves the appointment  *)
(* as it was.                                                              *)
(***************************************************************************)
EmptyUpdateIsValidationError ==
  [][\A c \in Clients :
       (UpdateWriteStep(c) /\ updateFields(reqs[c].updates) = {}) =>
          /\ reqs'[c].res = 400
          /\ appointments' = appointments]_vars

(***************************************************************************)
(* C27.  A presented token matches only the refresh_tokens record that was *)
(* created for that very token, so two different tokens of one account     *)
(* never match the same record; and the token a login or a refresh hands   *)
(* out differs from every token issued before.                             *)
(***************************************************************************)
TokensExactAndFresh ==
  /\ [](\A i \in DOMAIN refresh_tokens : \A t \in issued :
          compare(t, refresh_tokens[i].token_hash) => t = refresh_tokens[i].token)
  /\ [][\A c \in Clients :
          (calls[c].pc = "insert" /\ calls'[c].pc = "done") =>
             calls[c].newToken \notin issued]_vars

(***************************************************************************)
(* C21.  A register call that is answered with an error leaves nothing of  *)
(* that registration behind: not the users row it inserted, not the        *)
(* doctors row, and no refresh_tokens row of the account, so that the      *)
(* email is free for a retry.                                              *)
(***************************************************************************)
RegisterAllOrNothing ==
  \A c \in Clients :
     (regs[c].pc = "done" /\ regs[c].res # 201) =>
        /\ regs[c].userId \notin DOMAIN users
        /\ regs[c].doctorId \notin DOMAIN doctors
        /\ \A i \in DOMAIN refresh_tokens : refresh_tokens[i].user_id # regs[c].userId

TransactionEndedOnce ==
  \A c \in Clients :
     regs[c].pc = "done" =>
        /\ regs[c].begun = 1 => regs[c].commits + regs[c].rollbacks = 1
        /\ regs[c].releases = regs[c].acquired
        /\ regs[c].acquired = 0 => regs[c].rollbacks = 0

(***************************************************************************)
(* C26.  Whatever the server's timezone offset, the availability request   *)
(* and create accept the date that is the server's current calendar date   *)
(* and refuse every earlier date with 400, and the availability request    *)
(* reads the windows of the weekday of the requested calendar date.        *)
(***************************************************************************)
ServerDate == (server.clock + server.offset) \div MinutesPerDay

DatesInServerZone ==
  [][/\ \A c \in Clients :
          LET g == gets'[c]
              dayOfWeek == dayNames[(g.date % 7) + 1]
          IN (GetFree(c) /\ g.op = "availability" /\ g # gets[c]) =>
                /\ g.date = ServerDate => g.res # 400
                /\ g.date < ServerDate => g.res = 400
                /\ g.pc = "booked" => g.availability = Windows(g.doctorId, dayOfWeek)
                /\ (g.pc = "done" /\ g.res = 200) =>
                      Len(Windows(g.doctorId, dayOfWeek)) = 0
     /\ \A c \in Clients :
          LET r == reqs'[c]
          IN (Free(c) /\ r.op = "create" /\ r # reqs[c]
                /\ users[r.user].role = "patient") =>
                /\ r.date = ServerDate => r.res # 400
                /\ r.date < ServerDate => r.res = 400]_vars

(***************************************************************************)
(* C30.  No appointment holds a date that was in the past on the day it    *)
(* was written (here every request arrives on the same day), and an update *)
(* with a past appointmentDate is answered 400 as a create is.             *)
(***************************************************************************)
NoPastDates ==
  /\ [](\A i \in DOMAIN appointments :
          Date(appointments[i].appointment_date) >= today)
  /\ [][\A c \in Clients :
          LET r == reqs'[c]
          IN ( /\ Free(c) /\ r # reqs[c] /\ r.op \in {"create", "update"}
               /\ LET date == IF r.op = "create" THEN r.date
                              ELSE r.updates.appointmentDate
                  IN date # 0 /\ Date(date) < today
               /\ r.op = "create" => users[r.user].role = "patient" )
             => r.pc = "done" /\ r.res = 400]_vars

====
